---- MODULE Spec2Model ----
(***************************************************************************)
(* Flow graph execution engine of NodeDash/Ingest.                         *)
(*                                                                         *)
(* execute_flow_for_device (device_processor.py) creates the flow history  *)
(* record, resolves the trigger nodes and walks every outgoing edge of     *)
(* every trigger node with process_flow (flow_engine.py), which runs the   *)
(* function executor (function_processor.py) and the integration executor  *)
(* (integration_processor.py) and recurses over the outgoing edges.        *)
(*                                                                         *)
(* Python values are modelled as follows.  A dict key that is absent is    *)
(* the value Absent (strings) or NoPayload (payloads).  A payload is a     *)
(* natural number; a script that succeeds returns Script(payload).  An     *)
(* attribute value of a node is a record [t, s]: t is its Python type and  *)
(* s its str() form.  Every db.flush() and db.commit() may raise; the      *)
(* number of such failures in one run is bounded by MaxDbFailures.         *)
(***************************************************************************)
EXTENDS Integers, Sequences, FiniteSets, TLC

\* ------------------------------------------------------------------ bounds
MaxEdges == 1
MaxDbFailures == 1

\* ------------------------------------------------------------------ values
Absent == "absent"
NoPayload == -1
NullData == [null |-> "null"]

IntVal(s) == [t |-> "int", s |-> s]
StrVal(s) == [t |-> "str", s |-> s]
NoneVal == [t |-> "none", s |-> "None"]

\* str(v)
Str(v) == v.s

\* the [:500] of the fallbacks of execute_flow_for_device
TruncationLimit == 500
Truncate(len) == IF len > TruncationLimit THEN TruncationLimit ELSE len

\* a value of an audit field: whether the field is set, whether json.dumps
\* accepts the value, whether it is a fallback, whether it carries an error or
\* serialization_warning key, and the length of the string form it carries
AuditData(present, json, fallback, len) ==
  [present |-> present, json |-> json, fallback |-> fallback, marker |-> fallback, len |-> len]
NoData == [present |-> FALSE, json |-> TRUE, fallback |-> FALSE, marker |-> FALSE, len |-> 0]

\* a field of the flow record (execution_path, error_details, input_data,
\* output_data): json.dumps(v), or on failure the dictionary with status "error"
\* and truncated_data str(v)[:500]
SerializeField(v) ==
  IF v.json THEN AuditData(TRUE, TRUE, FALSE, v.len)
  ELSE AuditData(TRUE, TRUE, TRUE, Truncate(v.len))

\* the values the flow serializes: the payload is a validated uplink, the paths
\* and errors are lists of strings and dictionaries of strings, the last payload
\* is the payload or the serialized result of a function
FlowValue == [json |-> TRUE, len |-> 2]

\* the event: device.id, dev_eui, the uplink payload and the device's labels
VARIABLES
  device_id,           \* device.id
  device_eui,          \* device.dev_eui
  label_ids            \* the ids of the device's labels
Event == <<device_id, device_eui, label_ids>>
InputPayload == 0

\* the entities the store holds: function 1 and integration 1 exist
StoredFunctions == {"1"}
StoredIntegrations == {"1"}

\* a script that returns a value returns a changed payload
Script(payload) == payload + 1

\* ------------------------------------------------------------------ flows
NodeIds == {"d1", "f1", "i1"}
MissingId == "x"

DeviceNode == [id |-> "d1", type |-> "device", data |-> [deviceId |-> IntVal("1")]]

FunctionNodes ==
  { [id |-> "f1", type |-> "function", data |-> d] :
      d \in { [functionId |-> IntVal("1")], [functionId |-> IntVal("2")], NullData } }

IntegrationNodes ==
  { [id |-> "i1", type |-> "integration", data |-> d] :
      d \in { [integrationId |-> IntVal("1")], [integrationId |-> IntVal("2")] } }

EdgeSet == { [source |-> s, target |-> t] : s \in NodeIds, t \in NodeIds \cup {MissingId} }

\* rank of a node id in the declaration order of flow.nodes
Rank(n) == CASE n = "d1" -> 1 [] n = "f1" -> 2 [] n = "i1" -> 3 [] OTHER -> 4

RECURSIVE ReachedFrom(_, _)
\* the node ids a walk from the ids in reached arrives at along the edges es
ReachedFrom(reached, es) ==
  LET more == { es[k].target : k \in { j \in 1..Len(es) : es[j].source \in reached } } IN
  IF more \subseteq reached THEN reached ELSE ReachedFrom(reached \cup more, es)

\* edge lists of at most MaxEdges edges.  Both edge loops keep the edges whose
\* source is the node at hand and read nothing else of the list, so only the
\* relative order of the edges of one source is observable, and an edge whose
\* source no walk from the trigger node arrives at is never looked at: the lists
\* are in the order of their sources and hold no such edge.
EdgeLists ==
  { es \in UNION { [1..k -> EdgeSet] : k \in 0..MaxEdges } :
      /\ \A i \in 1..(Len(es) - 1) : Rank(es[i].source) <= Rank(es[i + 1].source)
      /\ \A i \in 1..Len(es) : es[i].source \in ReachedFrom({"d1"}, es) }

EnumeratedFlows ==
  { [id |-> 1, nodes |-> <<DeviceNode, f, g>>, edges |-> es] :
      f \in FunctionNodes, g \in IntegrationNodes, es \in EdgeLists }

\* flows of more edges or more trigger nodes than the enumerated ones
LabelNode == [id |-> "l1", type |-> "label", data |-> [labelId |-> StrVal("7")]]
StoredFunctionNode == [id |-> "f1", type |-> "function", data |-> [functionId |-> IntVal("1")]]
MissingFunctionNode == [id |-> "f1", type |-> "function", data |-> [functionId |-> IntVal("2")]]
SecondFunctionNode == [id |-> "f2", type |-> "function", data |-> [functionId |-> IntVal("1")]]
StoredIntegrationNode ==
  [id |-> "i1", type |-> "integration", data |-> [integrationId |-> IntVal("1")]]
Edge(s, t) == [source |-> s, target |-> t]

ScenarioFlows ==
  { \* two trigger nodes with an edge to the same node
    [id |-> 1, nodes |-> <<DeviceNode, LabelNode, StoredFunctionNode, StoredIntegrationNode>>,
     edges |-> <<Edge("d1", "f1"), Edge("l1", "f1")>>],
    \* a cycle f1 -> i1 -> f1 entered at f1
    [id |-> 1, nodes |-> <<DeviceNode, StoredFunctionNode, StoredIntegrationNode>>,
     edges |-> <<Edge("d1", "f1"), Edge("f1", "i1"), Edge("i1", "f1")>>],
    \* a chain that ends at an id that is no node of the flow
    [id |-> 1, nodes |-> <<DeviceNode, StoredFunctionNode, StoredIntegrationNode>>,
     edges |-> <<Edge("d1", "f1"), Edge("f1", "i1"), Edge("i1", "x")>>],
    \* a node with two outgoing edges, the first with a subtree of its own
    [id |-> 1, nodes |-> <<DeviceNode, StoredFunctionNode, StoredIntegrationNode>>,
     edges |-> <<Edge("d1", "f1"), Edge("f1", "i1"), Edge("i1", "x"), Edge("f1", "x")>>],
    \* a chain of two function nodes
    [id |-> 1, nodes |-> <<DeviceNode, StoredFunctionNode, SecondFunctionNode>>,
     edges |-> <<Edge("d1", "f1"), Edge("f1", "f2")>>],
    \* an integration node with an edge to a function node without data
    [id |-> 1,
     nodes |-> <<DeviceNode, [id |-> "f1", type |-> "function", data |-> NullData],
                 StoredIntegrationNode>>,
     edges |-> <<Edge("d1", "i1"), Edge("i1", "f1")>>],
    \* a function node whose function is not stored, with an edge to a function node
    [id |-> 1, nodes |-> <<DeviceNode, MissingFunctionNode, SecondFunctionNode>>,
     edges |-> <<Edge("d1", "f1"), Edge("f1", "f2")>>] }

Flows == EnumeratedFlows \cup ScenarioFlows

\* flows of one or two nodes and no edge, for the resolution of the trigger
\* nodes: device and label nodes whose attributes match by one id field, by a
\* later field after an earlier one that differs, by several fields, by the
\* label, by an id field and the label, or not at all
DeviceData ==
  { [deviceId |-> IntVal("42")],
    [entityId |-> StrVal("42")],
    [deviceId |-> IntVal("1"), id |-> StrVal("42")],
    [deviceId |-> IntVal("42"), entityId |-> IntVal("42")],
    [label |-> StrVal(" eui1 ")],
    [label |-> StrVal("eui2")],
    [id |-> IntVal("42"), label |-> StrVal("eui1")],
    [deviceId |-> NoneVal] }

LabelData ==
  { [labelId |-> IntVal("7")],
    [labelId |-> StrVal("07")],
    [labelId |-> StrVal("7x")],
    [entityId |-> StrVal("7")],
    [labelId |-> IntVal("2"), id |-> IntVal("7")],
    [labelId |-> StrVal("7x"), entityId |-> IntVal("7")],
    [labelId |-> IntVal("7"), entityId |-> StrVal("7"), id |-> IntVal("7")],
    [id |-> NoneVal] }

TriggerNodes(id) ==
  { [id |-> id, type |-> "device", data |-> d] : d \in DeviceData }
  \cup { [id |-> id, type |-> "label", data |-> d] : d \in LabelData }
  \cup { [id |-> id, type |-> "function", data |-> [functionId |-> IntVal("1")]] }

TriggerFlows ==
  { [id |-> 1, nodes |-> <<n>>, edges |-> <<>>] : n \in TriggerNodes("n1") }
  \cup { [id |-> 1, nodes |-> <<n, m>>, edges |-> <<>>] :
            n \in TriggerNodes("n1"), m \in TriggerNodes("n2") }

\* the events of these flows: the id as an integer or as a string, the label
\* ids as integers or as strings, or no label
DeviceIds == {IntVal("42"), StrVal("42"), IntVal("1")}
LabelIdLists == {<<>>, <<IntVal("7")>>, <<StrVal("7x")>>, <<IntVal("2"), IntVal("7")>>, <<StrVal("7")>>}

\* ------------------------------------------------------------------ trigger resolution
\* `key in node_data`; on a null data it raises TypeError (see TriggerResolutionRaises)
HasKey(data, key) == data # NullData /\ key \in DOMAIN data

\* str.strip()
Strip(s) == CASE s = " eui1 " -> "eui1" [] OTHER -> s

\* the strings int() accepts, and the integer (as its str() form) it returns
NumericStrings == {"1", "2", "7", "07", "42"}
IntParses(v) == v.t = "int" \/ (v.t = "str" /\ v.s \in NumericStrings)
\* int(v), as its str() form: int("07") is 7
IntOf(v) == IF v.s = "07" THEN "7" ELSE v.s

RECURSIVE DeviceIdMatchUncoerced(_, _)
\* the loop with `node_device_id == device_id` in place of the str() forms
DeviceIdMatchUncoerced(data, fields) ==
  IF fields = <<>> THEN FALSE
  ELSE IF HasKey(data, Head(fields)) /\ data[Head(fields)] = device_id THEN TRUE
  ELSE DeviceIdMatchUncoerced(data, Tail(fields))

RECURSIVE DeviceIdMatch(_, _)
\* the loop over ["deviceId", "entityId", "id"]: TRUE iff it appended the node
DeviceIdMatch(data, fields) ==
  IF fields = <<>> THEN FALSE
  ELSE IF HasKey(data, Head(fields)) /\ Str(data[Head(fields)]) = Str(device_id) THEN TRUE
  ELSE DeviceIdMatch(data, Tail(fields))

\* int(value) in label_ids, and str(value) in [str(lid) for lid in label_ids]
IntInLabelIds(v) ==
  \E k \in 1..Len(label_ids) : label_ids[k].t = "int" /\ label_ids[k].s = IntOf(v)
StrInLabelIds(v) == \E k \in 1..Len(label_ids) : Str(label_ids[k]) = Str(v)

RECURSIVE LabelIdMatchAsStrings(_, _)
\* the loop with the str() comparison alone, int() never tried
LabelIdMatchAsStrings(data, fields) ==
  IF fields = <<>> THEN FALSE
  ELSE IF HasKey(data, Head(fields)) /\ StrInLabelIds(data[Head(fields)]) THEN TRUE
  ELSE LabelIdMatchAsStrings(data, Tail(fields))

RECURSIVE LabelIdMatch(_, _)
\* the loop over ["labelId", "entityId", "id"]: int() first, str() when int() raises
LabelIdMatch(data, fields) ==
  IF fields = <<>> THEN FALSE
  ELSE IF HasKey(data, Head(fields))
          /\ (IF IntParses(data[Head(fields)])
              THEN IntInLabelIds(data[Head(fields)])
              ELSE StrInLabelIds(data[Head(fields)]))
       THEN TRUE
  ELSE LabelIdMatch(data, Tail(fields))

\* the iteration with the label test not guarded by `not device_matched`
TriggerAppendsUnguarded(node) ==
  IF node.type = "device" THEN
    (IF DeviceIdMatch(node.data, <<"deviceId", "entityId", "id">>) THEN <<node.id>> ELSE <<>>)
    \o (IF HasKey(node.data, "label") /\ Strip(Str(node.data.label)) = device_eui
        THEN <<node.id>> ELSE <<>>)
  ELSE IF node.type = "label" /\ label_ids # <<>> THEN
    (IF LabelIdMatch(node.data, <<"labelId", "entityId", "id">>) THEN <<node.id>> ELSE <<>>)
  ELSE <<>>

\* what one iteration of the loop over flow.nodes appends to trigger_nodes
TriggerAppends(node) ==
  IF node.type = "device" THEN
    LET device_matched == DeviceIdMatch(node.data, <<"deviceId", "entityId", "id">>) IN
    (IF device_matched THEN <<node.id>> ELSE <<>>)
    \o (IF ~device_matched /\ HasKey(node.data, "label")
           /\ Strip(Str(node.data.label)) = device_eui
        THEN <<node.id>> ELSE <<>>)
  ELSE IF node.type = "label" /\ label_ids # <<>> THEN
    (IF LabelIdMatch(node.data, <<"labelId", "entityId", "id">>) THEN <<node.id>> ELSE <<>>)
  ELSE <<>>

RECURSIVE ResolveTriggers(_)
ResolveTriggers(nodes) ==
  IF nodes = <<>> THEN <<>> ELSE TriggerAppends(Head(nodes)) \o ResolveTriggers(Tail(nodes))

\* `id_field in node_data` on a device or label node whose data is null
TriggerResolutionRaises(nodes) ==
  \E k \in 1..Len(nodes) :
     /\ nodes[k].data = NullData
     /\ nodes[k].type = "device" \/ (nodes[k].type = "label" /\ label_ids # <<>>)

\* ------------------------------------------------------------------ the flow graph
RECURSIVE OutgoingEdges(_, _)
\* the targets of the edges whose source is node_id, in declaration order
OutgoingEdges(edges, node_id) ==
  IF edges = <<>> THEN <<>>
  ELSE (IF Head(edges).source = node_id THEN <<Head(edges).target>> ELSE <<>>)
       \o OutgoingEdges(Tail(edges), node_id)

RECURSIVE FindNode(_, _)
\* the first node of flow.nodes with this id, as a sequence of length 0 or 1
FindNode(nodes, node_id) ==
  IF nodes = <<>> THEN <<>>
  ELSE IF Head(nodes).id = node_id THEN <<Head(nodes)>>
  ELSE FindNode(Tail(nodes), node_id)

RECURSIVE BranchesOf(_, _)
\* the (trigger node, target) pairs in the order the two loops visit them
BranchesOf(f, triggers) ==
  IF triggers = <<>> THEN <<>>
  ELSE LET ts == OutgoingEdges(f.edges, Head(triggers)) IN
       [k \in 1..Len(ts) |-> [trigger_node |-> Head(triggers), target_node |-> ts[k]]]
       \o BranchesOf(f, Tail(triggers))

\* ------------------------------------------------------------------ state
VARIABLES
  flow,                \* the Flow handed to execute_flow_for_device
  phase,               \* "init", "branches", "done", "aborted" (an exception left the call)
  flow_history,        \* the FlowHistory record: [status, state, db]
  label_history,       \* the LabelHistory records
  trigger_nodes,       \* trigger_nodes
  branch,              \* index of the next (trigger node, edge) pair
  errors,              \* errors
  execution_path,      \* execution_path
  flow_results,        \* flow_results
  last_node_payload,   \* last_node_payload
  summary,             \* the dict execute_flow_for_device returns
  stack,               \* the process_flow calls in progress, outermost first
  processed_nodes,     \* the processed_nodes set of the current top-level call
  function_history,    \* the FunctionHistory records
  integration_history, \* the IntegrationHistory records
  function_status,     \* Function.status of function 1
  integration_status,  \* Integration.status of integration 1
  flow_status,         \* flow.status as stored
  dbFailures,          \* how many flush/commit calls have raised
  executed,            \* the executor invocations, in order, with what they ran and returned
  escaped,             \* the exceptions that left a process_flow call: their causes
  result_tree,         \* extract_last_node_payload called on its own: its result
  incoming_payload,    \*   and its original_payload
  ingest,              \* receive_chirpstack_uplink: [stage, all_flows, flows, calls,
                       \*   flow_results, response]
  suspended,           \* the invocation that waits at an await while this one runs:
                       \*   its flow, its locals and the records of its session
  script_result,       \* the value the script of a function node returned
  reference_node,      \* a function or integration node whose entity is looked up
  reference,           \* the id the executor takes from its data and whether the
                       \*   entity was found
  uplink,              \* receive_chirpstack_uplink before the flows: the event, the
                       \*   DeviceHistory rows, the device's online status
  mqtt,                \* send_mqtt_message: the position of the caller, the flags
                       \*   the callbacks set, what was published and the result
  script_output        \* what is made of it: modified_payload, the output_data of the
                       \*   FunctionHistory record, execution_path and output_data of
                       \*   the FlowHistory record

\* what execute_flow_for_device leaves alone
\* the state of the operations modelled on their own
Apart == <<script_result, script_output, reference_node, reference, mqtt, uplink>>
Outside == <<result_tree, incoming_payload, ingest, suspended, Apart>>

vars == <<flow, device_id, device_eui, label_ids, phase, flow_history, label_history, trigger_nodes, branch, errors,
          execution_path, flow_results, last_node_payload, summary, stack,
          processed_nodes, function_history, integration_history, function_status,
          integration_status, flow_status, dbFailures, executed, escaped, result_tree,
          incoming_payload, ingest, suspended, script_result, script_output,
          reference_node, reference, mqtt, uplink>>

\* ------------------------------------------------------------------ the persistence session
\* A record is "pending" (added), "flushed", "committed" or "rolledback".
Flushed(recs) ==
  [k \in 1..Len(recs) |->
     IF recs[k].state = "pending" THEN [recs[k] EXCEPT !.state = "flushed"] ELSE recs[k]]

Committed(recs) ==
  [k \in 1..Len(recs) |->
     IF recs[k].state \in {"pending", "flushed"} THEN [recs[k] EXCEPT !.state = "committed"]
     ELSE recs[k]]

RolledBack(recs) ==
  [k \in 1..Len(recs) |->
     IF recs[k].state \in {"pending", "flushed"} THEN [recs[k] EXCEPT !.state = "rolledback"]
     ELSE recs[k]]

\* the flow history record: db is the status of its committed row, Absent if none
FlushedFh(fh) == IF fh.state = "pending" THEN [fh EXCEPT !.state = "flushed"] ELSE fh
CommittedFh(fh) ==
  IF fh.state \in {"pending", "flushed", "committed"}
  THEN [fh EXCEPT !.state = "committed", !.db = fh.status] ELSE fh
RolledBackFh(fh) ==
  IF fh.state \in {"pending", "flushed"} THEN [fh EXCEPT !.state = "rolledback"] ELSE fh

\* the session: the records of one db session
Session == [fh |-> flow_history, fn |-> function_history, ig |-> integration_history,
            lb |-> label_history]

SessionOp(S, op) ==
  CASE op = "flush" ->
         [fh |-> FlushedFh(S.fh), fn |-> Flushed(S.fn), ig |-> Flushed(S.ig), lb |-> Flushed(S.lb)]
    [] op = "commit" ->
         [fh |-> CommittedFh(S.fh), fn |-> Committed(S.fn), ig |-> Committed(S.ig),
          lb |-> Committed(S.lb)]
    [] op = "rollback" ->
         [fh |-> RolledBackFh(S.fh), fn |-> RolledBack(S.fn), ig |-> RolledBack(S.ig),
          lb |-> RolledBack(S.lb)]

RECURSIVE SessionOps(_, _)
SessionOps(S, ops) ==
  IF ops = <<>> THEN S ELSE SessionOps(SessionOp(S, Head(ops)), Tail(ops))

\* ------------------------------------------------------------------ node results
NoError == <<>>

\* a result dict of process_flow; a key the dict does not hold is Absent / NoPayload / <<>>
MkResult(node_id, type, status) ==
  [node_id |-> node_id, type |-> type, status |-> status, reason |-> Absent,
   error |-> NoError, function_result |-> Absent, function_error |-> Absent,
   integration_result |-> Absent, modified_payload |-> NoPayload, next_nodes |-> <<>>]

\* an arrival at a processed node reported as an error
SkippedResultAsError == [MkResult(Absent, Absent, "error") EXCEPT !.reason = "already_processed"]
\* a missing node reported as processed
NotFoundResultAsProcessed == [MkResult(Absent, Absent, "processed") EXCEPT !.reason = "not_found"]
SkippedResult == [MkResult(Absent, Absent, "skipped") EXCEPT !.reason = "already_processed"]
NotFoundResult == [MkResult(Absent, Absent, "error") EXCEPT !.reason = "not_found"]
\* the entry appended to next_results when the call for an edge raised
EdgeErrorResult(target) == [MkResult(target, Absent, "error") EXCEPT !.error = <<"exception", target>>]

\* ------------------------------------------------------------------ entity references
\* `not entity_id`: None, 0 and the empty string
Falsy(v) == v = NoneVal \/ (v.t = "int" /\ v.s = "0") \/ (v.t = "str" /\ v.s = "")

\* the lookup that takes the first key whose value is truthy
RECURSIVE FirstTruthy(_, _)
FirstTruthy(data, fields) ==
  IF fields = <<>> THEN NoneVal
  ELSE IF HasKey(data, Head(fields)) /\ ~Falsy(data[Head(fields)]) THEN data[Head(fields)]
  ELSE FirstTruthy(data, Tail(fields))

RECURSIVE FirstPresent(_, _)
\* the value of the first key of fields that node_data holds, None if none
FirstPresent(data, fields) ==
  IF fields = <<>> THEN NoneVal
  ELSE IF HasKey(data, Head(fields)) THEN data[Head(fields)]
  ELSE FirstPresent(data, Tail(fields))

\* the row with this id exists (a digit string is converted to int first)
Stored(v, ids) == IntParses(v) /\ v.s \in ids

\* ------------------------------------------------------------------ process_function_node
\* what running function.code does: it returns a value ("ok"), it holds a
\* denylisted substring ("deny"), it throws ("error"), or it overruns the deadline
\* it returns an object json.dumps rejects and whose str() is long ("ok_opaque"),
\* and the overrun is found by the __checkTimeout of the wrapper
\* ("timeout_check"), by the SIGALRM handler ("timeout_alarm") or by the deadline
\* test after js_func returns ("timeout_deadline")
Scripts == {"ok", "ok_opaque", "deny", "error", "timeout_check", "timeout_alarm",
            "timeout_deadline"}

\* `pattern in code` for some pattern of dangerous_patterns
Denylisted(script) == script = "deny"

\* the exception the try block ends with; a script with a denylisted substring
\* that is evaluated all the same returns a value
ScriptException(script) ==
  CASE Denylisted(script) -> "ValueError"
    [] script \in {"error", "timeout_check"} -> "JsException"
    [] script \in {"timeout_alarm", "timeout_deadline"} -> "TimeoutError"
    [] OTHER -> "none"

\* js2py.eval_js(wrapper_code) and js_func(payload) are reached
Evaluated(script) == ~Denylisted(script)

\* str(e) of the exception, as the handlers store and return it
ErrorMessage(script) ==
  CASE ScriptException(script) = "ValueError" -> "unsafe_pattern"
    [] ScriptException(script) = "TimeoutError" -> "timeout"
    [] script = "timeout_check" -> "js_timeout"
    [] ScriptException(script) = "JsException" -> "js_error"
    [] OTHER -> Absent

\* the value js_func(payload) returns: whether json.dumps accepts it, and the
\* length of its str()
ScriptResult(script) ==
  IF script = "ok_opaque" THEN [json |-> FALSE, len |-> TruncationLimit + 1]
  ELSE [json |-> TRUE, len |-> 2]

\* serialized_result / function_history.output_data: the result itself, or
\* {"error": "Non-serializable result", "data": str(result)}
FunctionOutput(v) ==
  IF v.json THEN AuditData(TRUE, TRUE, FALSE, v.len)
  ELSE AuditData(TRUE, TRUE, TRUE, v.len)

\* output_data after a failed save: {"error": "Data contained non-serializable
\* values"} on the success path, None on the timeout path
SimplifiedOutput(exc) == IF exc = "none" THEN AuditData(TRUE, TRUE, TRUE, 0) ELSE NoData

\* the flush/commit calls of one invocation that raise: the insert of the record,
\* the save of its final status, the second save, the commit of the finally block
FunctionFailSets(script) ==
  { F \in SUBSET {"insert", "save", "retry", "commit"} :
      /\ "insert" \in F => F = {"insert"}
      /\ "retry" \in F => "save" \in F /\ ScriptException(script) \in {"none", "TimeoutError"} }

process_function_node(node, payload, script, F) ==
  LET function_id == FirstPresent(node.data, <<"functionId", "entityId", "id">>)
      base == [raised |-> FALSE, found |-> FALSE, evaluated |-> FALSE, recs |-> <<>>,
               ops |-> <<>>,
               status |-> Absent, function_result |-> Absent, function_error |-> Absent,
               modified_payload |-> NoPayload]
  IN
  IF Falsy(function_id) THEN
    [base EXCEPT !.function_result = "error_missing_function_id"]
  ELSE IF ~Stored(function_id, StoredFunctions) THEN
    [base EXCEPT !.function_result = "error_function_not_found"]
  ELSE IF "insert" \in F THEN
    \* db.flush() of the new record raises before the try block
    [base EXCEPT !.found = TRUE, !.raised = TRUE,
                 !.recs = <<[entity_id |-> function_id.s, status |-> "running",
                             error_message |-> Absent, output_data |-> NoData,
                             state |-> "pending"]>>]
  ELSE
    LET exc == ScriptException(script)
        final == IF exc = "none" THEN "success" ELSE "error"
        save == IF "save" \notin F THEN <<"flush">>
                ELSE IF exc \in {"ValueError", "JsException"} THEN <<"rollback">>
                ELSE IF "retry" \in F THEN <<>> ELSE <<"flush">>
        commit == IF "commit" \in F THEN <<>> ELSE <<"commit">>
    IN
    [base EXCEPT
       !.found = TRUE,
       !.evaluated = Evaluated(script),
       !.raised = "commit" \in F,
       !.recs = <<[entity_id |-> function_id.s, status |-> final,
                   error_message |-> ErrorMessage(script),
                   output_data |-> IF "save" \in F /\ exc \in {"none", "TimeoutError"}
                                   THEN SimplifiedOutput(exc)
                                   ELSE IF exc = "none" THEN FunctionOutput(ScriptResult(script))
                                   ELSE NoData,
                   state |-> "pending"]>>,
       !.ops = <<"flush">> \o save \o commit,
       !.status = IF "commit" \in F THEN Absent ELSE final,
       !.function_result = final,
       !.function_error = ErrorMessage(script),
       !.modified_payload = IF exc = "none" THEN Script(payload) ELSE NoPayload]

\* the session calls of one function execution in program order, "raise" for a
\* flush or commit that raised: the insert, the save of the result (retried by
\* the success and the timeout path, rolled back by the generic handler) and
\* the commit of the finally block
function_session_calls(script, F) ==
  IF "insert" \in F THEN <<"raise">>
  ELSE
    LET exc == ScriptException(script)
        save == IF "save" \notin F THEN <<"flush">>
                ELSE IF exc \in {"ValueError", "JsException"} THEN <<"raise", "rollback">>
                ELSE IF "retry" \in F THEN <<"raise", "raise">> ELSE <<"raise", "flush">>
        commit == IF "commit" \in F THEN <<"raise">> ELSE <<"commit">>
    IN <<"flush">> \o save \o commit


\* ------------------------------------------------------------------ process_integration_node
\* what the integration does with the payload: the transport delivers it
\* ("success"), the transport returns an error result (unreachable host, timeout,
\* non-2xx answer: "error"), or integration.type is neither http nor mqtt and the
\* executor raises ValueError inside its try block ("unknown_type")
Transports == {"success", "error", "unknown_type"}

\* the exception raised inside the try block of the integration executor
TransportException(transport) == IF transport = "unknown_type" THEN "ValueError" ELSE "none"

\* status of the dictionary the transport returns
TransportStatus(transport) == IF transport = "success" THEN "success" ELSE "error"

\* integration_history.error_message
IntegrationErrorMessage(transport) ==
  CASE transport = "unknown_type" -> "unknown_integration_type"
    [] transport = "error" -> "transport"
    [] OTHER -> Absent

\* integration_history.response_data: the dictionary of the transport, which
\* json.dumps accepts
ResponseData(transport) ==
  IF TransportException(transport) = "none" THEN AuditData(TRUE, TRUE, FALSE, 2) ELSE NoData

IntegrationFailSets == { F \in SUBSET {"insert", "save", "commit"} : "insert" \in F => F = {"insert"} }

process_integration_node(node, payload, transport, F) ==
  LET integration_id == FirstPresent(node.data, <<"integrationId", "entityId", "id">>)
      base == [raised |-> FALSE, found |-> FALSE, recs |-> <<>>, ops |-> <<>>,
               status |-> Absent, integration_result |-> "error", error |-> Absent]
  IN
  IF Falsy(integration_id) THEN [base EXCEPT !.error = "missing_integration_id"]
  ELSE IF ~Stored(integration_id, StoredIntegrations) THEN
    [base EXCEPT !.error = "integration_not_found"]
  ELSE IF "insert" \in F THEN
    [base EXCEPT !.found = TRUE, !.raised = TRUE,
                 !.recs = <<[entity_id |-> integration_id.s, status |-> "running",
                             error_message |-> Absent, response_data |-> NoData,
                             state |-> "pending"]>>]
  ELSE
    LET status == TransportStatus(transport)
        masked == "save" \in F /\ TransportException(transport) = "none"
        save == IF "save" \in F THEN <<"rollback">> ELSE <<"flush">>
        commit == IF "commit" \in F THEN <<"rollback">> ELSE <<"commit", "flush">>
    IN
    [base EXCEPT
       !.found = TRUE,
       !.recs = <<[entity_id |-> integration_id.s, status |-> status,
                   error_message |-> IntegrationErrorMessage(transport),
                   response_data |-> ResponseData(transport),
                   state |-> "pending"]>>,
       !.ops = <<"flush">> \o save \o commit,
       !.status = IF "commit" \in F THEN Absent ELSE status,
       !.integration_result = IF masked THEN "success" ELSE status,
       !.error = IF masked THEN Absent ELSE IntegrationErrorMessage(transport)]

\* the session calls of one integration execution in program order: both save
\* handlers and the handler of the finally block roll back
integration_session_calls(F) ==
  IF "insert" \in F THEN <<"raise">>
  ELSE
    LET save == IF "save" \in F THEN <<"raise", "rollback">> ELSE <<"flush">>
        commit == IF "commit" \in F THEN <<"raise", "rollback">> ELSE <<"commit", "flush">>
    IN <<"flush">> \o save \o commit


\* ------------------------------------------------------------------ extract_last_node_payload
RECURSIVE extract_first_node_payload(_, _)
\* the extraction that returns last_payloads[0]
extract_first_node_payload(R, payload) ==
  LET current_payload == IF R.modified_payload # NoPayload
                         THEN R.modified_payload ELSE payload
      last_payloads == [k \in 1..Len(R.next_nodes) |->
                          extract_first_node_payload(R.next_nodes[k], current_payload)]
  IN IF last_payloads # <<>> THEN last_payloads[1] ELSE current_payload

RECURSIVE extract_last_node_payload(_, _)
extract_last_node_payload(result, original_payload) ==
  LET current_payload == IF result.modified_payload # NoPayload
                         THEN result.modified_payload ELSE original_payload
      last_payloads == [k \in 1..Len(result.next_nodes) |->
                          extract_last_node_payload(result.next_nodes[k], current_payload)]
  IN IF last_payloads # <<>> THEN last_payloads[Len(last_payloads)] ELSE current_payload

\* ------------------------------------------------------------------ process_flow
Top == stack[Len(stack)]
Branches == BranchesOf(flow, trigger_nodes)

\* a call of process_flow is due: by the branch loop, or by the edge loop of the top frame
CallDue ==
  /\ phase = "branches"
  /\ IF stack = <<>> THEN branch <= Len(Branches) ELSE Top.i <= Len(Top.targets)

CallTarget == IF stack = <<>> THEN Branches[branch].target_node ELSE Top.targets[Top.i]
CallPayload == IF stack = <<>> THEN InputPayload ELSE Top.next_payload
\* a process_flow whose recursive calls do not hand processed_nodes on
EntryProcessedFresh == {}
\* processed_nodes as the call sees it: a new set when the argument is None
EntryProcessed == IF stack = <<>> THEN {} ELSE processed_nodes
\* a process_flow that takes every call for a root call
CallIsRootAlways == TRUE
CallIsRoot == stack = <<>>

\* an edge loop that keeps no sub-result for a skipped target
EdgeOutcomeDropsSkipped(frame, target, out) ==
  IF out.exc THEN
    [frame EXCEPT !.i = @ + 1,
                  !.results.next_nodes = Append(@, EdgeErrorResult(target)),
                  !.results.status = "error",
                  !.results.error = <<"exception", target>>]
  ELSE IF out.result.status = "error" /\ frame.results.status # "error" THEN
    [frame EXCEPT !.i = @ + 1,
                  !.results.next_nodes = Append(@, out.result),
                  !.results.status = "error",
                  !.results.error = <<"downstream", target>>]
  ELSE IF out.result.status = "skipped" THEN [frame EXCEPT !.i = @ + 1]
  ELSE
    [frame EXCEPT !.i = @ + 1, !.results.next_nodes = Append(@, out.result)]

\* the edge loop of a frame receives the outcome of the call for edge i
EdgeOutcome(frame, target, out) ==
  IF out.exc THEN
    [frame EXCEPT !.i = @ + 1,
                  !.results.next_nodes = Append(@, EdgeErrorResult(target)),
                  !.results.status = "error",
                  !.results.error = <<"exception", target>>]
  ELSE IF out.result.status = "error" /\ frame.results.status # "error" THEN
    [frame EXCEPT !.i = @ + 1,
                  !.results.next_nodes = Append(@, out.result),
                  !.results.status = "error",
                  !.results.error = <<"downstream", target>>]
  ELSE
    [frame EXCEPT !.i = @ + 1, !.results.next_nodes = Append(@, out.result)]

\* the caller (the frames stk, or the branch loop when stk is empty) receives the
\* outcome of the call for target: a result, or an exception
Deliver(stk, target, out) ==
  IF stk # <<>> THEN
    /\ stack' = [stk EXCEPT ![Len(stk)] = EdgeOutcome(@, target, out)]
    /\ UNCHANGED <<branch, errors, execution_path, flow_results, last_node_payload>>
  ELSE
    /\ stack' = <<>>
    /\ branch' = branch + 1
    /\ IF out.exc THEN
         /\ errors' = Append(errors, [node_id |-> target, error |-> <<"exception", target>>])
         /\ UNCHANGED <<execution_path, flow_results, last_node_payload>>
       ELSE
         /\ last_node_payload' = extract_last_node_payload(out.result, InputPayload)
         /\ execution_path' = Append(execution_path,
              [trigger_node |-> Branches[branch].trigger_node, target_node |-> target,
               result |-> out.result])
         /\ errors' = IF out.result.status = "error"
                      THEN Append(errors, [node_id |-> target, error |-> out.result.error])
                      ELSE errors
         /\ flow_results' = Append(flow_results,
              [trigger_node |-> Branches[branch].trigger_node, result |-> out.result])

Returned(result) == [exc |-> FALSE, result |-> result]
Raised == [exc |-> TRUE, result |-> SkippedResult]

NodeOf(node_id) == FindNode(flow.nodes, node_id)

\* a frame that hands its incoming payload on whatever its node produced
FrameSamePayload(node, payload, results, root) ==
  [node_id |-> node.id, type |-> node.type, payload |-> payload,
   next_payload |-> payload,
   targets |-> OutgoingEdges(flow.edges, node.id), i |-> 1,
   results |-> results, is_root_call |-> root]
\* the frame of a call that goes on to its edge loop
Frame(node, payload, results, root) ==
  [node_id |-> node.id, type |-> node.type, payload |-> payload,
   next_payload |-> IF node.type = "function" /\ results.modified_payload # NoPayload
                    THEN results.modified_payload ELSE payload,
   targets |-> OutgoingEdges(flow.edges, node.id), i |-> 1,
   results |-> results, is_root_call |-> root]

DbVars == <<flow_history, label_history, function_history, integration_history,
            function_status, integration_status, dbFailures>>
RootVars == <<flow, device_id, device_eui, label_ids, phase, trigger_nodes, summary,
              flow_status, Outside>>

\* the node is in processed_nodes: skipped, nothing else happens
CallSkipped ==
  /\ CallDue
  /\ CallTarget \in EntryProcessed
  /\ Deliver(stack, CallTarget, Returned(SkippedResult))
  /\ UNCHANGED <<processed_nodes, executed, escaped>>
  /\ UNCHANGED DbVars /\ UNCHANGED RootVars

\* the node is marked processed and is not a node of the flow
CallNotFound ==
  /\ CallDue
  /\ CallTarget \notin EntryProcessed
  /\ NodeOf(CallTarget) = <<>>
  /\ processed_nodes' = EntryProcessed \cup {CallTarget}
  /\ Deliver(stack, CallTarget, Returned(NotFoundResult))
  /\ UNCHANGED <<executed, escaped>>
  /\ UNCHANGED DbVars /\ UNCHANGED RootVars

\* current_node.get("data", {}) is None: the id lookup before the try block raises
PrologueRaises(node) ==
  node.data = NullData /\ node.type \in {"function", "integration", "device", "label"}

CallRaises ==
  /\ CallDue
  /\ CallTarget \notin EntryProcessed
  /\ NodeOf(CallTarget) # <<>>
  /\ PrologueRaises(NodeOf(CallTarget)[1])
  /\ processed_nodes' = EntryProcessed \cup {CallTarget}
  /\ escaped' = Append(escaped, "prologue")
  /\ Deliver(stack, CallTarget, Raised)
  /\ UNCHANGED executed
  /\ UNCHANGED DbVars /\ UNCHANGED RootVars

\* a device or label node (or a node of another type): nothing is executed
CallPassThrough ==
  /\ CallDue
  /\ CallTarget \notin EntryProcessed
  /\ NodeOf(CallTarget) # <<>>
  /\ LET node == NodeOf(CallTarget)[1] IN
       /\ ~PrologueRaises(node)
       /\ node.type \notin {"function", "integration"}
       /\ stack' = Append(stack, Frame(node, CallPayload,
                                       MkResult(node.id, node.type, "processed"), CallIsRoot))
  /\ processed_nodes' = EntryProcessed \cup {CallTarget}
  /\ UNCHANGED <<branch, errors, execution_path, flow_results, last_node_payload,
                 executed, escaped>>
  /\ UNCHANGED DbVars /\ UNCHANGED RootVars

\* a process_flow that takes every function_result but success for an error
FunctionNodeResultsStrict(node, r) ==
  LET base == MkResult(node.id, node.type, "processed") IN
  IF r.raised THEN
    [base EXCEPT !.function_result = "error", !.function_error = "exception",
                 !.status = "error"]
  ELSE
    [base EXCEPT !.function_result = r.function_result,
                 !.function_error = r.function_error,
                 !.modified_payload = r.modified_payload,
                 !.status = IF r.function_result # "success" THEN "error" ELSE "processed",
                 !.error = IF r.function_result # "success"
                           THEN <<"function", r.function_error>> ELSE NoError]

\* what process_flow makes of the function executor's outcome
FunctionNodeResults(node, r) ==
  LET base == MkResult(node.id, node.type, "processed") IN
  IF r.raised THEN
    [base EXCEPT !.function_result = "error", !.function_error = "exception",
                 !.status = "error"]
  ELSE
    [base EXCEPT !.function_result = r.function_result,
                 !.function_error = r.function_error,
                 !.modified_payload = r.modified_payload,
                 !.status = IF r.function_result = "error" THEN "error" ELSE "processed",
                 !.error = IF r.function_result = "error"
                           THEN <<"function", r.function_error>> ELSE NoError]

\* what process_flow makes of the integration executor's outcome
IntegrationNodeResults(node, r) ==
  LET base == MkResult(node.id, node.type, "processed") IN
  IF r.raised THEN
    [base EXCEPT !.integration_result = "error", !.status = "error",
                 !.error = <<"integration", "exception">>]
  ELSE
    [base EXCEPT !.integration_result = r.integration_result,
                 !.status = IF r.integration_result = "error" THEN "error" ELSE "processed",
                 !.error = IF r.integration_result = "error"
                           THEN <<"integration", r.error>> ELSE NoError]

\* an exception of the executor call leaves process_flow: never, the `except
\* Exception` around each executor call catches it
ExecutorEscapes(r) == FALSE

\* the session after an executor call: its new records, its flushes, commits and
\* rollbacks, and the rollback of process_flow when the executor raised
AfterExecutor(S, r) == SessionOps(S, r.ops \o (IF r.raised THEN <<"rollback">> ELSE <<>>))

\* the calls the session saw for one node: those of the executor, none when the
\* entity was not found, and the rollback of process_flow when the executor raised
NodeSessionCalls(r, calls) ==
  (IF r.found THEN calls ELSE <<>>) \o (IF r.raised THEN <<"rollback">> ELSE <<>>)

\* a flush or commit raised and no rollback came after it
LeftFailed(calls) ==
  \E i \in DOMAIN calls :
    calls[i] = "raise" /\ \A j \in DOMAIN calls : j > i => calls[j] # "rollback"

CallFunction ==
  /\ CallDue
  /\ CallTarget \notin EntryProcessed
  /\ NodeOf(CallTarget) # <<>>
  /\ LET node == NodeOf(CallTarget)[1] IN
       /\ ~PrologueRaises(node)
       /\ node.type = "function"
       /\ \E script \in Scripts : \E F \in FunctionFailSets(script) :
            \E r \in {process_function_node(node, CallPayload, script, F)} :
            \E S \in {AfterExecutor([Session EXCEPT !.fn = function_history \o r.recs], r)} :
            \E results \in {FunctionNodeResults(node, r)} :
            /\ r.found \/ (F = {} /\ script = "ok")
            /\ dbFailures + Cardinality(F) <= MaxDbFailures
            /\ dbFailures' = dbFailures + Cardinality(F)
            /\ flow_history' = S.fh
            /\ function_history' = S.fn
            /\ integration_history' = S.ig
            /\ label_history' = S.lb
            /\ function_status' = IF r.status # Absent THEN r.status ELSE function_status
            /\ executed' = Append(executed,
                 [node_id |-> node.id, kind |-> "function", found |-> r.found,
                  input |-> script, evaluated |-> r.evaluated,
                  left_failed |-> LeftFailed(NodeSessionCalls(r, function_session_calls(script, F))),
                  raised |-> r.raised, outcome |-> results.function_result,
                  message |-> results.function_error,
                  status |-> results.status])
            /\ IF ExecutorEscapes(r) THEN
                 /\ escaped' = Append(escaped, "executor")
                 /\ Deliver(stack, CallTarget, Raised)
               ELSE
                 /\ stack' = Append(stack, Frame(node, CallPayload, results, CallIsRoot))
                 /\ UNCHANGED <<branch, errors, execution_path, flow_results,
                                last_node_payload, escaped>>
  /\ processed_nodes' = EntryProcessed \cup {CallTarget}
  /\ UNCHANGED integration_status
  /\ UNCHANGED RootVars

CallIntegration ==
  /\ CallDue
  /\ CallTarget \notin EntryProcessed
  /\ NodeOf(CallTarget) # <<>>
  /\ LET node == NodeOf(CallTarget)[1] IN
       /\ ~PrologueRaises(node)
       /\ node.type = "integration"
       /\ \E transport \in Transports : \E F \in IntegrationFailSets :
            \E r \in {process_integration_node(node, CallPayload, transport, F)} :
            \E S \in {AfterExecutor([Session EXCEPT !.ig = integration_history \o r.recs], r)} :
            \E results \in {IntegrationNodeResults(node, r)} :
            /\ r.found \/ (F = {} /\ transport = "success")
            /\ dbFailures + Cardinality(F) <= MaxDbFailures
            /\ dbFailures' = dbFailures + Cardinality(F)
            /\ flow_history' = S.fh
            /\ function_history' = S.fn
            /\ integration_history' = S.ig
            /\ label_history' = S.lb
            /\ integration_status' = IF r.status # Absent THEN r.status ELSE integration_status
            /\ executed' = Append(executed,
                 [node_id |-> node.id, kind |-> "integration", found |-> r.found,
                  input |-> transport, evaluated |-> FALSE,
                  left_failed |-> LeftFailed(NodeSessionCalls(r, integration_session_calls(F))),
                  raised |-> r.raised,
                  message |-> r.error,
                  outcome |-> IF r.found /\ ~r.raised /\ transport = "success"
                              THEN "success" ELSE "error",
                  status |-> results.status])
            /\ IF ExecutorEscapes(r) THEN
                 /\ escaped' = Append(escaped, "executor")
                 /\ Deliver(stack, CallTarget, Raised)
               ELSE
                 /\ stack' = Append(stack, Frame(node, CallPayload, results, CallIsRoot))
                 /\ UNCHANGED <<branch, errors, execution_path, flow_results,
                                last_node_payload, escaped>>
  /\ processed_nodes' = EntryProcessed \cup {CallTarget}
  /\ UNCHANGED function_status
  /\ UNCHANGED RootVars

\* the edge loop of the top frame is over: the root call updates flow.status and
\* commits (a failure is rolled back and logged), and the call returns its results
Return ==
  /\ phase = "branches"
  /\ stack # <<>>
  /\ Top.i > Len(Top.targets)
  /\ IF Top.is_root_call THEN
       /\ \E ok \in BOOLEAN :
            LET S == SessionOp(Session, IF ok THEN "commit" ELSE "rollback") IN
            /\ ok \/ dbFailures < MaxDbFailures
            /\ flow_status' = IF ~ok THEN flow_status
                              ELSE IF Top.results.status = "error" THEN "error" ELSE "success"
            /\ dbFailures' = IF ok THEN dbFailures ELSE dbFailures + 1
            /\ flow_history' = S.fh
            /\ function_history' = S.fn
            /\ integration_history' = S.ig
            /\ label_history' = S.lb
     ELSE
       /\ UNCHANGED flow_status
       /\ UNCHANGED <<flow_history, function_history, integration_history, label_history,
                      dbFailures>>
  /\ Deliver(SubSeq(stack, 1, Len(stack) - 1), Top.node_id, Returned(Top.results))
  /\ UNCHANGED Event /\ UNCHANGED Outside
  /\ UNCHANGED <<flow, phase, trigger_nodes, summary, processed_nodes, function_status,
                 integration_status, executed, escaped>>

\* ------------------------------------------------------------------ execute_flow_for_device
\* the final status of the flow history record
\* `errors if errors else None`
OrNone(list) == [none |-> list = <<>>, list |-> list]

FlowStatus(errs, path) ==
  IF errs # <<>> THEN
    IF Len(errs) = Len(path) THEN "error" ELSE "partial_success"
  ELSE "success"

\* the record is created, the label history records are added, the trigger nodes
\* are resolved; the first flush and the trigger resolution are not guarded
Start ==
  /\ phase = "init"
  /\ \E F \in SUBSET {"insert", "labels"} :
       LET labels == [k \in 1..Len(label_ids) |->
                        [entity_id |-> label_ids[k].s, status |-> "success",
                         state |-> IF "labels" \in F THEN "pending" ELSE "flushed"]]
       IN
       /\ "insert" \in F => F = {"insert"}
       /\ Cardinality(F) <= MaxDbFailures
       /\ dbFailures' = Cardinality(F)
       /\ flow_history' = [status |-> "running", db |-> Absent, output_data |-> NoData,
                           state |-> IF "insert" \in F THEN "pending" ELSE "flushed"]
       /\ label_history' = IF "insert" \in F THEN <<>> ELSE labels
       /\ IF "insert" \in F \/ TriggerResolutionRaises(flow.nodes) THEN
            /\ phase' = "aborted"
            /\ UNCHANGED trigger_nodes
          ELSE
            /\ phase' = "branches"
            /\ trigger_nodes' = ResolveTriggers(flow.nodes)
  /\ UNCHANGED Event /\ UNCHANGED Outside
  /\ UNCHANGED <<flow, branch, errors, execution_path, flow_results, last_node_payload,
                 summary, stack, processed_nodes, function_history, integration_history,
                 function_status, integration_status, flow_status, executed, escaped>>

\* every branch is done: the record gets its final status and is committed; the
\* commit is not guarded
Finalize ==
  /\ phase = "branches"
  /\ stack = <<>>
  /\ branch > Len(Branches)
  /\ LET flow_status_ == FlowStatus(errors, execution_path)
         added == [flow_history EXCEPT
                     !.status = flow_status_,
                     !.output_data = SerializeField(FlowValue),
                     !.state = IF @ = "rolledback" THEN "pending" ELSE @]
     IN
     \E ok \in BOOLEAN :
       /\ ok \/ dbFailures < MaxDbFailures
       /\ IF ok THEN
            LET S == SessionOp([Session EXCEPT !.fh = added], "commit") IN
            /\ flow_history' = S.fh
            /\ function_history' = S.fn
            /\ integration_history' = S.ig
            /\ label_history' = S.lb
            /\ phase' = "done"
            /\ summary' = [status |-> flow_status_, results |-> flow_results,
                           errors |-> OrNone(errors),
                           last_node_payload |-> last_node_payload]
            /\ UNCHANGED dbFailures
          ELSE
            /\ flow_history' = added
            /\ phase' = "aborted"
            /\ dbFailures' = dbFailures + 1
            /\ UNCHANGED <<function_history, integration_history, label_history, summary>>
  /\ UNCHANGED Event /\ UNCHANGED Outside
  /\ UNCHANGED <<flow, trigger_nodes, branch, errors, execution_path, flow_results,
                 last_node_payload, stack, processed_nodes, function_status,
                 integration_status, flow_status, executed, escaped>>

\* ------------------------------------------------------------------ two invocations
\* no second invocation
NoInvocation == [phase |-> "none"]

\* the invocation that runs, as it is kept while it waits
Running ==
  [flow |-> flow, phase |-> phase, flow_history |-> flow_history,
   label_history |-> label_history, trigger_nodes |-> trigger_nodes, branch |-> branch,
   errors |-> errors, execution_path |-> execution_path, flow_results |-> flow_results,
   last_node_payload |-> last_node_payload, summary |-> summary, stack |-> stack,
   processed_nodes |-> processed_nodes, function_history |-> function_history,
   integration_history |-> integration_history, flow_status |-> flow_status,
   dbFailures |-> dbFailures, executed |-> executed, escaped |-> escaped]

\* a processed_nodes set that is one object for every invocation
SharedProcessedNodes(invocation) == processed_nodes \cup invocation.processed_nodes

\* processed_nodes is a local of the root call, created by it: the invocation
\* that resumes finds its own set
OwnProcessedNodes(invocation) == invocation.processed_nodes

\* the running invocation is at an await that gives the event loop the control:
\* the request an integration node sends
AtAwait ==
  /\ CallDue
  /\ CallTarget \notin EntryProcessed
  /\ \E k \in 1..Len(flow.nodes) :
        flow.nodes[k].id = CallTarget /\ flow.nodes[k].type = "integration"

\* the event loop goes on with the other invocation
Switch ==
  /\ suspended.phase \in {"init", "branches"}
  /\ AtAwait \/ phase \in {"done", "aborted"}
  /\ suspended' = Running
  /\ flow' = suspended.flow
  /\ phase' = suspended.phase
  /\ flow_history' = suspended.flow_history
  /\ label_history' = suspended.label_history
  /\ trigger_nodes' = suspended.trigger_nodes
  /\ branch' = suspended.branch
  /\ errors' = suspended.errors
  /\ execution_path' = suspended.execution_path
  /\ flow_results' = suspended.flow_results
  /\ last_node_payload' = suspended.last_node_payload
  /\ summary' = suspended.summary
  /\ stack' = suspended.stack
  /\ processed_nodes' = OwnProcessedNodes(suspended)
  /\ function_history' = suspended.function_history
  /\ integration_history' = suspended.integration_history
  /\ flow_status' = suspended.flow_status
  /\ dbFailures' = suspended.dbFailures
  /\ executed' = suspended.executed
  /\ escaped' = suspended.escaped
  /\ UNCHANGED <<device_id, device_eui, label_ids, function_status, integration_status,
                 result_tree, incoming_payload, ingest, Apart>>

\* ------------------------------------------------------------------ receive_chirpstack_uplink
NoSummary == [status |-> Absent, results |-> <<>>, errors |-> OrNone(<<>>),
              last_node_payload |-> NoPayload]

\* nothing of a call of execute_flow_for_device: its locals, the record it
\* creates, the stored status of its flow, and what is remembered of the call
NoCall ==
  /\ flow_history = [status |-> Absent, db |-> Absent, output_data |-> NoData,
                     state |-> Absent]
  /\ label_history = <<>>
  /\ trigger_nodes = <<>>
  /\ branch = 1
  /\ errors = <<>>
  /\ execution_path = <<>>
  /\ flow_results = <<>>
  /\ last_node_payload = NoPayload
  /\ summary = NoSummary
  /\ stack = <<>>
  /\ processed_nodes = {}
  /\ flow_status = Absent
  /\ dbFailures = 0
  /\ executed = <<>>
  /\ escaped = <<>>

\* no function or integration has run
EmptyStore ==
  /\ function_history = <<>>
  /\ integration_history = <<>>
  /\ function_status = "inactive"
  /\ integration_status = "inactive"

NoResponse == [success |-> FALSE, flows_processed |-> -1]
NoIngest == [stage |-> "none", all_flows |-> <<>>, flows |-> <<>>, calls |-> <<>>,
             flow_results |-> <<>>, response |-> NoResponse]

\* the request has passed the device lookup; all_flows is db.query(Flow).all()
Received(stored) == [NoIngest EXCEPT !.stage = "received", !.all_flows = stored]

RECURSIVE PossibleIds(_, _)
\* possible_ids: the values of the id fields the node data has, in field order
PossibleIds(data, fields) ==
  IF fields = <<>> THEN <<>>
  ELSE (IF HasKey(data, Head(fields)) THEN <<data[Head(fields)]>> ELSE <<>>)
       \o PossibleIds(data, Tail(fields))

\* the flow ids one iteration of the loop over flow.nodes appends to flows: a
\* device node that matches by an id field leaves the loop over possible_ids
\* only, and is then tested by its label
NodeAppends(f, node) ==
  LET device_ids == PossibleIds(node.data, <<"deviceId", "entityId", "id">>)
      label_values == PossibleIds(node.data, <<"labelId", "entityId", "id">>)
      by_id == /\ node.type = "device"
               /\ \E k \in 1..Len(device_ids) : Str(device_ids[k]) = Str(device_id)
      by_eui == /\ node.type = "device"
                /\ HasKey(node.data, "label")
                /\ Strip(Str(node.data.label)) = device_eui
      by_label == /\ node.type = "label"
                  /\ label_ids # <<>>
                  /\ \E k \in 1..Len(label_values) :
                        IF IntParses(label_values[k]) THEN IntInLabelIds(label_values[k])
                        ELSE StrInLabelIds(label_values[k])
  IN (IF by_id THEN <<f.id>> ELSE <<>>)
     \o (IF by_eui THEN <<f.id>> ELSE <<>>)
     \o (IF by_label THEN <<f.id>> ELSE <<>>)

RECURSIVE FlowAppends(_, _)
\* the loop over flow.nodes, left at the first node that sets flow_matched
FlowAppends(f, nodes) ==
  IF nodes = <<>> THEN <<>>
  ELSE IF NodeAppends(f, Head(nodes)) # <<>> THEN NodeAppends(f, Head(nodes))
  ELSE FlowAppends(f, Tail(nodes))

RECURSIVE MatchingFlows(_, _)
\* the loop over all_flows: flows as a list of flow ids
MatchingFlows(stored, added_flow_ids) ==
  IF stored = <<>> THEN <<>>
  ELSE LET f == Head(stored)
           appended == IF f.id \in added_flow_ids \/ f.nodes = <<>> THEN <<>>
                       ELSE FlowAppends(f, f.nodes)
       IN appended
          \o MatchingFlows(Tail(stored),
                           added_flow_ids \cup { appended[k] : k \in 1..Len(appended) })

RECURSIVE DedupeById(_)
\* list({flow.id: flow for flow in flows}.values()): each id at its first place
DedupeById(ids) ==
  IF ids = <<>> THEN <<>>
  ELSE LET front == DedupeById(SubSeq(ids, 1, Len(ids) - 1))
           last == ids[Len(ids)]
       IN IF \E k \in 1..Len(front) : front[k] = last THEN front ELSE Append(front, last)

\* the stored flow with this id
FlowById(stored, id) == stored[CHOOSE k \in 1..Len(stored) : stored[k].id = id]

\* `id_field in node_data` on a device or label node whose data is null, before
\* its flow has matched
SelectionRaises(stored) ==
  \E j \in 1..Len(stored) : \E k \in 1..Len(stored[j].nodes) :
     /\ TriggerResolutionRaises(<<stored[j].nodes[k]>>)
     /\ FlowAppends(stored[j], SubSeq(stored[j].nodes, 1, k - 1)) = <<>>

IngestVars == <<flow, device_id, device_eui, label_ids, flow_history, label_history,
                trigger_nodes, branch, errors, execution_path, flow_results,
                last_node_payload, summary, stack, processed_nodes, function_history,
                integration_history, function_status, integration_status, flow_status,
                dbFailures, executed, escaped, result_tree, incoming_payload, suspended, Apart>>

\* the flows that use the device or its labels are found; an exception is
\* answered with success false
SelectFlows ==
  /\ ingest.stage = "received"
  /\ ingest' = IF SelectionRaises(ingest.all_flows)
               THEN [ingest EXCEPT !.stage = "responded"]
               ELSE [ingest EXCEPT !.stage = "processing",
                                   !.flows = DedupeById(MatchingFlows(ingest.all_flows, {}))]
  /\ UNCHANGED phase
  /\ UNCHANGED IngestVars

\* the next matching flow is handed to execute_flow_for_device
ExecuteFlow ==
  /\ ingest.stage = "processing"
  /\ phase = "idle"
  /\ Len(ingest.flow_results) < Len(ingest.flows)
  /\ LET id == ingest.flows[Len(ingest.flow_results) + 1] IN
     /\ flow' = FlowById(ingest.all_flows, id)
     /\ ingest' = [ingest EXCEPT !.calls = Append(@, id)]
  /\ phase' = "init"
  /\ UNCHANGED <<device_id, device_eui, label_ids, flow_history, label_history,
                 trigger_nodes, branch, errors, execution_path, flow_results,
                 last_node_payload, summary, stack, processed_nodes, function_history,
                 integration_history, function_status, integration_status, flow_status,
                 dbFailures, executed, escaped, result_tree, incoming_payload, suspended, Apart>>

\* execute_flow_for_device has returned: its result is appended to flow_results
FlowReturns ==
  /\ ingest.stage = "processing"
  /\ phase = "done"
  /\ ingest' = [ingest EXCEPT !.flow_results = Append(@, summary)]
  /\ phase' = "idle"
  /\ flow_history' = [status |-> Absent, db |-> Absent, output_data |-> NoData,
                      state |-> Absent]
  /\ label_history' = <<>>
  /\ trigger_nodes' = <<>>
  /\ branch' = 1
  /\ errors' = <<>>
  /\ execution_path' = <<>>
  /\ flow_results' = <<>>
  /\ last_node_payload' = NoPayload
  /\ summary' = NoSummary
  /\ stack' = <<>>
  /\ processed_nodes' = {}
  /\ flow_status' = Absent
  /\ dbFailures' = 0
  /\ executed' = <<>>
  /\ escaped' = <<>>
  /\ UNCHANGED <<flow, device_id, device_eui, label_ids, function_history,
                 integration_history, function_status, integration_status, result_tree,
                 incoming_payload, suspended, Apart>>

\* an exception has left execute_flow_for_device: the handler of the request
\* answers with success false
FlowRaises ==
  /\ ingest.stage = "processing"
  /\ phase = "aborted"
  /\ ingest' = [ingest EXCEPT !.stage = "responded"]
  /\ phase' = "idle"
  /\ UNCHANGED IngestVars

\* every matching flow has been executed
Respond ==
  /\ ingest.stage = "processing"
  /\ phase = "idle"
  /\ Len(ingest.flow_results) = Len(ingest.flows)
  /\ ingest' = [ingest EXCEPT !.stage = "responded",
                              !.response = [success |-> TRUE,
                                            flows_processed |-> Len(ingest.flow_results)]]
  /\ UNCHANGED phase
  /\ UNCHANGED IngestVars

\* ------------------------------------------------------------------ specification

\* the state before execute_flow_for_device runs
InitState ==
  /\ phase = "init"
  /\ NoCall
  /\ EmptyStore

\* no script result is being coerced on its own
NoResult == [t |-> "unset", v |-> "", keys |-> <<>>, items |-> <<>>]
NoOutput == [modified_payload |-> NoResult, output_data |-> NoResult,
             execution_path |-> <<>>, flow_output_data |-> <<>>]

NoScriptOutput ==
  /\ script_result = NoResult
  /\ script_output = NoOutput

\* no entity reference is being resolved on its own
NoNode == [id |-> "none", type |-> "none", data |-> <<>>]
NoReference == [entity_id |-> NoneVal, missing |-> FALSE, found |-> FALSE]
NoReferenceCall ==
  /\ reference_node = NoNode
  /\ reference = NoReference

\* send_mqtt_message is not called
NoMqtt == [pc |-> "idle", caller |-> "none", config_qos |-> 0, qos |-> 0, loop |-> FALSE,
           connected |-> FALSE, connection_error |-> "none", publish_complete |-> FALSE,
           sleeps |-> 0, published |-> <<>>, log |-> <<>>,
           result |-> [status |-> "none", error |-> "none"]]
NoMqttCall == mqtt = NoMqtt

\* the duplicate check of receive_chirpstack_uplink is not modelled
NoUplink == [stage |-> "none", event_type |-> "uplink", dedup |-> "", before |-> <<>>,
             history |-> <<>>, redis_online |-> FALSE, status |-> "offline"]
NoUplinkCall == uplink = NoUplink

\* the operations modelled on their own have not been called
NotCalled ==
  /\ NoScriptOutput
  /\ NoReferenceCall
  /\ NoMqttCall
  /\ NoUplinkCall

\* extract_last_node_payload is not called on its own, and no uplink is being
\* received
NoExtraction ==
  /\ result_tree = SkippedResult
  /\ incoming_payload = InputPayload
  /\ ingest = NoIngest
  /\ suspended = NoInvocation
  /\ NotCalled

\* device 1 with EUI eui1 and label 7 sends an uplink
Init ==
  /\ flow \in Flows
  /\ device_id = IntVal("1")
  /\ device_eui = "eui1"
  /\ label_ids = <<IntVal("7")>>
  /\ InitState
  /\ NoExtraction

\* any device sends an uplink to a flow of trigger nodes
TriggerInit ==
  /\ flow \in TriggerFlows
  /\ device_id \in DeviceIds
  /\ device_eui = "eui1"
  /\ label_ids \in LabelIdLists
  /\ InitState
  /\ NoExtraction

Next ==
  \/ Start
  \/ CallSkipped
  \/ CallNotFound
  \/ CallRaises
  \/ CallPassThrough
  \/ CallFunction
  \/ CallIntegration
  \/ Return
  \/ Finalize

Spec == Init /\ [][Next]_vars

FairSpec == Spec /\ WF_vars(Next)

\* a flow without edges: the trigger nodes are resolved, no branch is walked and
\* the record is finalized
TriggerNext ==
  \/ Start
  \/ Finalize

TriggerSpec == TriggerInit /\ [][TriggerNext]_vars

\* ------------------------------------------------------------------ extract_last_node_payload alone
\* result trees of at most MaxDepth levels; a result has no, one or two
\* sub-results and a modified_payload (1 or 2) or none
MaxDepth == 2
ChildCounts == {0, 1, 2}
ModifiedPayloads == {NoPayload, 1, 2}
IncomingPayloads == {InputPayload, 5}

RECURSIVE ResultTrees(_)
ResultTrees(depth) ==
  IF depth = 1 THEN
    { [MkResult("n", "function", "processed") EXCEPT !.modified_payload = m] :
        m \in ModifiedPayloads }
  ELSE
    LET below == ResultTrees(depth - 1) IN
    { [MkResult("n", "function", "processed") EXCEPT !.modified_payload = m,
                                                    !.next_nodes = children] :
        m \in ModifiedPayloads,
        children \in UNION { [1..n -> below] : n \in ChildCounts } }

ExtractInit ==
  /\ result_tree \in ResultTrees(MaxDepth)
  /\ incoming_payload \in IncomingPayloads
  /\ flow \in {CHOOSE f \in ScenarioFlows : TRUE}
  /\ device_id = IntVal("1")
  /\ device_eui = "eui1"
  /\ label_ids = <<>>
  /\ InitState
  /\ ingest = NoIngest
  /\ suspended = NoInvocation
  /\ NotCalled

\* the call extract_last_node_payload(result_tree, incoming_payload)
Extract ==
  /\ phase = "init"
  /\ last_node_payload' = extract_last_node_payload(result_tree, incoming_payload)
  /\ phase' = "done"
  /\ UNCHANGED <<flow, trigger_nodes, branch, errors, execution_path, flow_results, summary,
                 stack, processed_nodes, flow_status, executed, escaped>>
  /\ UNCHANGED DbVars /\ UNCHANGED Event /\ UNCHANGED Outside

ExtractSpec == ExtractInit /\ [][Extract]_vars

\* ------------------------------------------------------------------ an uplink and the stored flows
\* flows that device 1 triggers or not: a cycle, a missing target, a function
\* node without data, an edge to a label node, the node of another device, no
\* node at all
UplinkFlows ==
  { f \in ScenarioFlows : Len(f.edges) = 3 }
  \cup { [id |-> 1, nodes |-> <<DeviceNode, [id |-> "f1", type |-> "function", data |-> NullData]>>,
          edges |-> <<Edge("d1", "f1")>>],
         [id |-> 1, nodes |-> <<DeviceNode, LabelNode>>, edges |-> <<Edge("d1", "l1")>>],
         [id |-> 1, nodes |-> <<[id |-> "d1", type |-> "device", data |-> [deviceId |-> IntVal("42")]],
                               StoredFunctionNode>>,
          edges |-> <<Edge("d1", "f1")>>],
         [id |-> 1, nodes |-> <<>>, edges |-> <<>>] }

\* the stored flows: the primary key is the place in the table
StoredAs(fs) == [k \in 1..Len(fs) |-> [fs[k] EXCEPT !.id = k]]

\* the flows stored after them: one that device 1 triggers and one it does not
LaterFlows ==
  { [id |-> 1, nodes |-> <<[id |-> "d1", type |-> "device", data |-> [deviceId |-> v]],
                          StoredIntegrationNode>>,
     edges |-> <<Edge("d1", "i1")>>] : v \in {StrVal("1"), IntVal("42")} }

NoFlow == [id |-> 0, nodes |-> <<>>, edges |-> <<>>]

\* an uplink of any device with one stored flow of trigger nodes, or an uplink
\* of device 1 with two stored flows
IngestInit ==
  /\ \/ /\ \E f \in TriggerFlows : ingest = Received(StoredAs(<<f>>))
        /\ device_id \in DeviceIds
        /\ label_ids \in LabelIdLists
     \/ /\ \E f \in UplinkFlows, g \in LaterFlows : ingest = Received(StoredAs(<<f, g>>))
        /\ device_id = IntVal("1")
        /\ label_ids = <<IntVal("7")>>
  /\ device_eui = "eui1"
  /\ flow = NoFlow
  /\ phase = "idle"
  /\ NoCall
  /\ EmptyStore
  /\ result_tree = SkippedResult
  /\ incoming_payload = InputPayload
  /\ suspended = NoInvocation
  /\ NotCalled

IngestNext ==
  \/ SelectFlows
  \/ ExecuteFlow
  \/ FlowReturns
  \/ FlowRaises
  \/ Respond
  \/ Next

IngestSpec == IngestInit /\ [][IngestNext]_vars

\* ------------------------------------------------------------------ two uplinks at a time
\* the flows of the first invocation: a missing target, a function node without
\* data, an edge to a label node
ConcurrentFlows ==
  { f \in UplinkFlows : f.nodes # <<>> /\ Head(f.nodes) = DeviceNode
                                      /\ Edge("i1", "f1") \notin { f.edges[k] : k \in 1..Len(f.edges) } }

\* the invocation of the second uplink has not begun
NotBegun(f) ==
  [flow |-> f, phase |-> "init",
   flow_history |-> [status |-> Absent, db |-> Absent, output_data |-> NoData,
                     state |-> Absent],
   label_history |-> <<>>, trigger_nodes |-> <<>>, branch |-> 1, errors |-> <<>>,
   execution_path |-> <<>>, flow_results |-> <<>>, last_node_payload |-> NoPayload,
   summary |-> NoSummary, stack |-> <<>>, processed_nodes |-> {},
   function_history |-> <<>>, integration_history |-> <<>>, flow_status |-> Absent,
   dbFailures |-> 0, executed |-> <<>>, escaped |-> <<>>]

\* the flow d1 -> i1
IntegrationFlow ==
  [id |-> 2, nodes |-> <<DeviceNode, StoredIntegrationNode>>, edges |-> <<Edge("d1", "i1")>>]

\* the cycle l1 -> i1 -> l1 entered at l1, a label node of another label
LabelCycleFlow ==
  [id |-> 3,
   nodes |-> <<DeviceNode, [id |-> "l1", type |-> "label", data |-> [labelId |-> IntVal("2")]],
               StoredIntegrationNode>>,
   edges |-> <<Edge("d1", "l1"), Edge("l1", "i1"), Edge("i1", "l1")>>]

\* device 1 sends two uplinks: the second one triggers the flow d1 -> i1 or the
\* cycle, which the first one may trigger too
ConcurrentInit ==
  /\ flow \in ConcurrentFlows \cup {LabelCycleFlow}
  /\ \E f \in {IntegrationFlow, LabelCycleFlow} : suspended = NotBegun(f)
  /\ NotCalled
  /\ device_id = IntVal("1")
  /\ device_eui = "eui1"
  /\ label_ids = <<IntVal("7")>>
  /\ InitState
  /\ result_tree = SkippedResult
  /\ incoming_payload = InputPayload
  /\ ingest = NoIngest

ConcurrentNext ==
  \/ Switch
  \/ Next

ConcurrentSpec == ConcurrentInit /\ [][ConcurrentNext]_vars

\* ------------------------------------------------------------------ the result of a script
\* Python values: None, a bool, an int, a float, the float NaN, a str, a value
\* json.dumps rejects ("object"), a list, a dict, and the js2py wrapper of a
\* JavaScript object, whose to_dict() returns the dict of its keys and items.
\* v is the JSON token of a scalar and the text of a str.
Leaf(t, v) == [t |-> t, v |-> v, keys |-> <<>>, items |-> <<>>]
PyNone == Leaf("none", "null")
PyBool == Leaf("bool", "true")
PyInt == Leaf("int", "1")
PyFloat == Leaf("float", "1.5")
PyNaN == Leaf("nan", "NaN")
PyStr(text) == Leaf("str", text)
PyObject == Leaf("object", "")
PyList(items) == [t |-> "list", v |-> "", keys |-> <<>>, items |-> items]
PyDict(keys, items) == [t |-> "dict", v |-> "", keys |-> keys, items |-> items]
JsWrapper(d) == [t |-> "wrapper", v |-> "", keys |-> d.keys, items |-> d.items]
to_dict(w) == PyDict(w.keys, w.items)

Leaves == {PyNone, PyBool, PyInt, PyFloat, PyNaN, PyStr("text"), PyObject}
ItemCounts == {0, 1, 2}
KeysOf(n) == SubSeq(<<"a", "b">>, 1, n)

\* the values of at most `depth` levels
RECURSIVE PyValues(_)
PyValues(depth) ==
  IF depth = 1 THEN Leaves
  ELSE
    LET below == PyValues(depth - 1)
        lists == UNION { [1..n -> below] : n \in ItemCounts }
    IN Leaves \cup { PyList(items) : items \in lists }
              \cup { PyDict(KeysOf(Len(items)), items) : items \in lists }

\* what js_func(payload) returns
ScriptResults ==
  PyValues(MaxDepth) \cup { JsWrapper(d) : d \in { x \in PyValues(MaxDepth) : x.t = "dict" } }

\* json.dumps(x) does not raise; NaN is written as the token NaN
RECURSIVE Serializable(_)
Serializable(x) ==
  CASE x.t \in {"object", "wrapper", "unset"} -> FALSE
    [] x.t \in {"list", "dict"} -> \A i \in DOMAIN x.items : Serializable(x.items[i])
    [] OTHER -> TRUE

\* json.dumps(x) as a sequence of tokens
RECURSIVE Encode(_)
RECURSIVE EncodeItems(_, _, _)
EncodeItems(x, i, sep) ==
  IF i > Len(x.items) THEN <<>>
  ELSE sep \o (IF x.t = "dict" THEN <<"\"", x.keys[i], "\"", ":">> ELSE <<>>)
           \o Encode(x.items[i]) \o EncodeItems(x, i + 1, <<",">>)
Encode(x) ==
  CASE x.t = "str" -> <<"\"", x.v, "\"">>
    [] x.t = "list" -> <<"[">> \o EncodeItems(x, 1, <<>>) \o <<"]">>
    [] x.t = "dict" -> <<"{">> \o EncodeItems(x, 1, <<>>) \o <<"}">>
    [] OTHER -> <<x.v>>

Wrap(x) == PyDict(<<"data">>, <<x>>)
\* str(result)
StrOf(x) == PyStr("repr")

\* a coercion that does not validate its candidate with json.dumps
serialize_result_unchecked(result) ==
  CASE result.t = "wrapper" -> to_dict(result)
    [] result.t = "none" -> Wrap(PyNone)
    [] result.t = "dict" -> result
    [] result.t \in {"list", "str", "int", "float", "nan", "bool"} -> Wrap(result)
    [] OTHER -> Wrap(StrOf(result))

\* the coercion of the script's return value into serialized_result
serialize_result(result) ==
  LET candidate ==
        CASE result.t = "wrapper" -> to_dict(result)
          [] result.t = "none" -> Wrap(PyNone)
          [] result.t = "dict" -> result
          [] result.t \in {"list", "str", "int", "float", "nan", "bool"} -> Wrap(result)
          [] OTHER -> Wrap(StrOf(result))
      checked ==
        IF Serializable(candidate) THEN candidate
        ELSE PyDict(<<"error", "data">>, <<PyStr("Non-serializable result"), StrOf(result)>>)
  IN IF checked.t # "dict" THEN Wrap(checked) ELSE checked

RECURSIVE replace_nan_values(_)
replace_nan_values(data) ==
  CASE data.t \in {"dict", "list"} ->
         [data EXCEPT !.items = [i \in DOMAIN data.items |-> replace_nan_values(data.items[i])]]
    [] data.t = "nan" -> PyNone
    [] OTHER -> data

\* function_history.output_data on the success path
OutputData(serialized_result) ==
  LET cleaned == IF serialized_result.t = "dict" THEN replace_nan_values(serialized_result)
                 ELSE serialized_result
  IN IF Serializable(cleaned) THEN cleaned
     ELSE PyDict(<<"status", "original_error", "data">>,
                 <<PyStr("error"), PyStr("serialization error"),
                   PyStr("Error in output data - contained non-serializable values")>>)

\* the results dict of process_flow for function node f1 without outgoing edges
NodeResultValue(modified_payload) ==
  PyDict(<<"node_id", "type", "status", "function_result", "function_history_id",
           "modified_payload">>,
         <<PyStr("f1"), PyStr("function"), PyStr("processed"), PyStr("success"), PyInt,
           modified_payload>>)

\* execution_path of a flow d1 -> f1
ExecutionPathValue(modified_payload) ==
  PyList(<<PyDict(<<"trigger_node", "target_node", "result">>,
                  <<PyStr("d1"), PyStr("f1"), NodeResultValue(modified_payload)>>)>>)

\* json.dumps(value), or of the error dict when it raises
SerializeOrFallback(value, field) ==
  IF Serializable(value) THEN Encode(value)
  ELSE Encode(PyDict(<<"status", "error", "truncated_data">>,
                     <<PyStr("error"), PyStr(field), PyStr("truncated")>>))

\* a dict is truthy when it has a key
Truthy(x) == ~(x.t = "dict" /\ x.items = <<>>)

\* flow_history.output_data: json.dumps(last_node_payload) if last_node_payload
\* else None (no token)
FlowOutputData(last) ==
  IF Truthy(last) THEN SerializeOrFallback(last, "output_data") ELSE <<>>

\* everything but the state of the operations modelled on their own is as
\* before an invocation
NoFlowCall ==
  /\ flow \in {CHOOSE f \in ScenarioFlows : TRUE}
  /\ device_id = IntVal("1")
  /\ device_eui = "eui1"
  /\ label_ids = <<>>
  /\ InitState
  /\ result_tree = SkippedResult
  /\ incoming_payload = InputPayload
  /\ ingest = NoIngest
  /\ suspended = NoInvocation

OutputInit ==
  /\ script_result \in ScriptResults
  /\ script_output = NoOutput
  /\ NoFlowCall
  /\ NoReferenceCall
  /\ NoMqttCall
  /\ NoUplinkCall

\* the script of leaf function node f1 returns script_result: the success path
\* of process_function_node, then the flow record of execute_flow_for_device
ScriptReturns ==
  /\ script_output = NoOutput
  /\ \E serialized_result \in {serialize_result(script_result)} :
       script_output' =
         [modified_payload |-> serialized_result,
          output_data |-> OutputData(serialized_result),
          execution_path |->
            SerializeOrFallback(ExecutionPathValue(serialized_result), "execution_path"),
          flow_output_data |-> FlowOutputData(serialized_result)]
  /\ UNCHANGED <<flow, phase, trigger_nodes, branch, errors, execution_path, flow_results,
                 last_node_payload, summary, stack, processed_nodes, flow_status, executed,
                 escaped, script_result, result_tree, incoming_payload, ingest, suspended,
                 reference_node, reference, mqtt, uplink>>
  /\ UNCHANGED DbVars /\ UNCHANGED Event

OutputSpec == OutputInit /\ [][ScriptReturns]_vars

\* ------------------------------------------------------------------ the entity of a node
\* node data: any of the keys functionId, integrationId, entityId and id, each
\* with an id as int or str, or None
ReferenceKeys == {"functionId", "integrationId", "entityId", "id"}
ReferenceValues == {IntVal("1"), IntVal("2"), StrVal("1"), NoneVal}
NodeDatas == UNION { [K -> ReferenceValues] : K \in SUBSET ReferenceKeys }
ReferenceNodes ==
  { [id |-> "n1", type |-> type, data |-> d] :
      type \in {"function", "integration"}, d \in NodeDatas }

ReferenceInit ==
  /\ reference_node \in ReferenceNodes
  /\ reference = NoReference
  /\ NoFlowCall
  /\ NoScriptOutput
  /\ NoMqttCall
  /\ NoUplinkCall

\* the executor of the node is called with a script that returns and a
\* transport that delivers; no flush or commit fails
ResolveReference ==
  /\ reference = NoReference
  /\ \E r \in {IF reference_node.type = "function"
               THEN process_function_node(reference_node, InputPayload, "ok", {})
               ELSE process_integration_node(reference_node, InputPayload, "success", {})} :
       reference' =
         [entity_id |-> IF r.recs = <<>> THEN NoneVal ELSE IntVal(r.recs[1].entity_id),
          missing |-> IF reference_node.type = "function"
                      THEN r.function_result = "error_missing_function_id"
                      ELSE r.error = "missing_integration_id",
          found |-> r.found]
  /\ UNCHANGED <<flow, phase, trigger_nodes, branch, errors, execution_path, flow_results,
                 last_node_payload, summary, stack, processed_nodes, flow_status, executed,
                 escaped, script_result, script_output, result_tree, incoming_payload,
                 ingest, suspended, reference_node, mqtt, uplink>>
  /\ UNCHANGED DbVars /\ UNCHANGED Event

ReferenceSpec == ReferenceInit /\ [][ResolveReference]_vars

\* ------------------------------------------------------------------ send_mqtt_message
\* the sleeps of 0.1 s a wait of `timeout` seconds lasts at most
MaxPolls == 2
QosLevels == {0, 1, 2}

\* process_mqtt_integration reads host, port, topic, the credentials and the
\* TLS files from integration.config and passes no qos: send_mqtt_message runs
\* with its default
DefaultQos == 0
process_mqtt_integration(config_qos) ==
  [NoMqtt EXCEPT !.pc = "begin", !.caller = "integration", !.config_qos = config_qos,
                 !.qos = DefaultQos]
\* send_mqtt_message called with a qos argument
send_mqtt_message(qos) ==
  [NoMqtt EXCEPT !.pc = "begin", !.caller = "direct", !.config_qos = qos, !.qos = qos]

MqttInit ==
  /\ mqtt \in { process_mqtt_integration(q) : q \in QosLevels }
              \cup { send_mqtt_message(q) : q \in QosLevels }
  /\ NoFlowCall
  /\ NoScriptOutput
  /\ NoReferenceCall
  /\ NoUplinkCall

MqttFrame ==
  /\ UNCHANGED <<flow, phase, trigger_nodes, branch, errors, execution_path, flow_results,
                 last_node_payload, summary, stack, processed_nodes, flow_status, executed,
                 escaped, script_result, script_output, result_tree, incoming_payload,
                 ingest, suspended, reference_node, reference, uplink>>
  /\ UNCHANGED DbVars /\ UNCHANGED Event

Goto(pc) == mqtt' = [mqtt EXCEPT !.pc = pc] /\ MqttFrame
\* return {"status": status, "error": error} after client.loop_stop()
ReturnMqtt(status, error) ==
  /\ mqtt' = [mqtt EXCEPT !.pc = "returned", !.loop = FALSE,
                          !.result = [status |-> status, error |-> error]]
  /\ MqttFrame
Logged(event) == Append(mqtt.log, event)

\* the checks of host and topic, the TLS setup, client.connect and loop_start
Begin ==
  /\ mqtt.pc = "begin"
  /\ \E setup \in {"ok", "no_host", "no_topic", "tls_fails", "connect_raises"} :
       IF setup = "ok"
       THEN mqtt' = [mqtt EXCEPT !.pc = "c_connected", !.loop = TRUE, !.sleeps = 0] /\ MqttFrame
       ELSE ReturnMqtt("error", setup)

\* the condition of the connect loop, one read at a time
ReadConnected ==
  /\ mqtt.pc = "c_connected"
  /\ Goto(IF mqtt.connected THEN "c_check" ELSE "c_error")

ReadConnectionError ==
  /\ mqtt.pc = "c_error"
  /\ Goto(IF mqtt.connection_error # "none" THEN "c_check" ELSE "c_time")

\* time.time() - start_time < timeout, then time.sleep(0.1)
ReadConnectClock ==
  /\ mqtt.pc = "c_time"
  /\ \E expired \in BOOLEAN :
       /\ mqtt.sleeps >= MaxPolls => expired
       /\ mqtt' = IF expired THEN [mqtt EXCEPT !.pc = "c_check"]
                  ELSE [mqtt EXCEPT !.pc = "c_connected", !.sleeps = @ + 1]
  /\ MqttFrame

\* `if not connected`
CheckConnected ==
  /\ mqtt.pc = "c_check"
  /\ mqtt' = [mqtt EXCEPT !.pc = IF mqtt.connected THEN "encode" ELSE "c_msg",
                          !.log = Logged("connect_wait_over")]
  /\ MqttFrame

\* loop_stop, and the message: connection_error or the time-out text
ConnectFailed ==
  /\ mqtt.pc = "c_msg"
  /\ ReturnMqtt("error", IF mqtt.connection_error # "none" THEN "connection_failed"
                         ELSE "connect_timeout")

\* json.dumps(payload) or str(payload)
EncodePayload ==
  /\ mqtt.pc = "encode"
  /\ \E raises \in BOOLEAN :
       IF raises THEN ReturnMqtt("error", "payload_encoding") ELSE Goto("publish")

\* client.publish(topic, payload_str, qos=qos)
Publish ==
  /\ mqtt.pc = "publish"
  /\ \E raises \in BOOLEAN :
       IF raises THEN ReturnMqtt("error", "mqtt_error")
       ELSE /\ mqtt' = [mqtt EXCEPT !.pc = IF mqtt.qos > 0 THEN "p_complete" ELSE "stop",
                                    !.sleeps = 0,
                                    !.published = Append(@, [topic |-> "topic",
                                                             qos |-> mqtt.qos])]
            /\ MqttFrame

ReadPublishComplete ==
  /\ mqtt.pc = "p_complete"
  /\ Goto(IF mqtt.publish_complete THEN "p_check" ELSE "p_time")

ReadPublishClock ==
  /\ mqtt.pc = "p_time"
  /\ \E expired \in BOOLEAN :
       /\ mqtt.sleeps >= MaxPolls => expired
       /\ mqtt' = IF expired THEN [mqtt EXCEPT !.pc = "p_check"]
                  ELSE [mqtt EXCEPT !.pc = "p_complete", !.sleeps = @ + 1]
  /\ MqttFrame

\* a publish wait that does not test publish_complete when it ends
CheckPublishedUntested ==
  /\ mqtt.pc = "p_check"
  /\ mqtt' = [mqtt EXCEPT !.pc = "stop", !.log = Logged("publish_wait_over")]
  /\ MqttFrame

\* `if not publish_complete`
CheckPublished ==
  /\ mqtt.pc = "p_check"
  /\ mqtt' = [mqtt EXCEPT !.pc = IF mqtt.publish_complete THEN "stop" ELSE "p_msg",
                          !.log = Logged("publish_wait_over")]
  /\ MqttFrame

PublishTimedOut ==
  /\ mqtt.pc = "p_msg"
  /\ ReturnMqtt("error", "publish_timeout")

\* loop_stop and the success dict
ReturnSuccess ==
  /\ mqtt.pc = "stop"
  /\ ReturnMqtt("success", "none")

\* the network thread calls on_connect with the code of the CONNACK, once
OnConnect ==
  /\ mqtt.loop
  /\ \A i \in DOMAIN mqtt.log : mqtt.log[i] \notin {"on_connect_0", "on_connect_refused"}
  /\ \E rc \in {0, 5} :
       mqtt' = IF rc = 0
               THEN [mqtt EXCEPT !.connected = TRUE, !.log = Logged("on_connect_0")]
               ELSE [mqtt EXCEPT !.connection_error = "code", !.log = Logged("on_connect_refused")]
  /\ MqttFrame

\* the network thread calls on_publish for the message, once
OnPublish ==
  /\ mqtt.loop
  /\ mqtt.published # <<>>
  /\ \A i \in DOMAIN mqtt.log : mqtt.log[i] # "on_publish"
  /\ mqtt' = [mqtt EXCEPT !.publish_complete = TRUE, !.log = Logged("on_publish")]
  /\ MqttFrame

\* the steps of the thread that called send_mqtt_message
MqttCaller ==
  \/ Begin
  \/ ReadConnected
  \/ ReadConnectionError
  \/ ReadConnectClock
  \/ CheckConnected
  \/ ConnectFailed
  \/ EncodePayload
  \/ Publish
  \/ ReadPublishComplete
  \/ ReadPublishClock
  \/ CheckPublished
  \/ PublishTimedOut
  \/ ReturnSuccess

MqttNext == MqttCaller \/ OnConnect \/ OnPublish

MqttSpec == MqttInit /\ [][MqttNext]_vars

\* the calling thread is scheduled
MqttFairSpec == MqttSpec /\ WF_vars(MqttCaller)

\* ------------------------------------------------------------------ the duplicate check of an uplink
\* the rows of DeviceHistory, most recent first: [device_id, event, dedup]
HistoryLimit == 10
HistoryEntry(device, event, dedup) == [device_id |-> device, event |-> event, dedup |-> dedup]
HistoryEntries ==
  { HistoryEntry("1", "uplink", "a"), HistoryEntry("1", "uplink", "b"),
    HistoryEntry("2", "uplink", "a"), HistoryEntry("1", "join", "a") }
\* k earlier uplinks of device 1 with another deduplicationId
Padding(k) == [i \in 1..k |-> HistoryEntry("1", "uplink", "b")]
PaddingLengths == {0, 8, 9, 10}
Histories ==
  { Padding(k) \o h : k \in PaddingLengths,
                      h \in UNION { [1..n -> HistoryEntries] : n \in {0, 1, 2} } }

\* a query that returns one row less than the limit
MostRecentButOne(rows, limit) ==
  IF Len(rows) > limit - 1 THEN SubSeq(rows, 1, limit - 1) ELSE rows

\* .limit(limit).all() of a query ordered by timestamp descending
MostRecent(rows, limit) == IF Len(rows) > limit THEN SubSeq(rows, 1, limit) ELSE rows

\* existing_history: the rows of the device with the event type
ExistingHistory(rows, device, event) ==
  MostRecent(SelectSeq(rows, LAMBDA row : row.device_id = device /\ row.event = event),
             HistoryLimit)

\* an uplink or join of device 1 with deduplicationId a arrives; one flow is stored
UplinkInit ==
  /\ \E h \in Histories, e \in {"uplink", "join"} :
       uplink = [NoUplink EXCEPT !.stage = "arrived", !.event_type = e, !.dedup = "a",
                                 !.before = h, !.history = h]
  /\ \E g \in LaterFlows : ingest = [NoIngest EXCEPT !.all_flows = StoredAs(<<g>>)]
  /\ device_id = IntVal("1")
  /\ label_ids = <<IntVal("7")>>
  /\ device_eui = "eui1"
  /\ flow = NoFlow
  /\ phase = "idle"
  /\ NoCall
  /\ EmptyStore
  /\ result_tree = SkippedResult
  /\ incoming_payload = InputPayload
  /\ suspended = NoInvocation
  /\ NoScriptOutput
  /\ NoReferenceCall
  /\ NoMqttCall

Answered(success) ==
  [ingest EXCEPT !.stage = "responded",
                 !.response = [success |-> success, flows_processed |-> 0]]

\* stages 4 to 6: the duplicate check, the new DeviceHistory row, the online
\* status and the commit; an uplink goes on to the flows, a join is answered
CheckDuplicate ==
  /\ uplink.stage = "arrived"
  /\ LET existing_history == ExistingHistory(uplink.history, "1", uplink.event_type)
         row == HistoryEntry("1", uplink.event_type, uplink.dedup)
     IN
     IF \E k \in DOMAIN existing_history : existing_history[k].dedup = uplink.dedup THEN
       /\ uplink' = [uplink EXCEPT !.stage = "rejected"]
       /\ ingest' = Answered(FALSE)
       /\ UNCHANGED dbFailures
     ELSE
       \E ok \in BOOLEAN :
         /\ ok \/ dbFailures < MaxDbFailures
         /\ dbFailures' = IF ok THEN dbFailures ELSE dbFailures + 1
         /\ uplink' = [uplink EXCEPT !.stage = "accepted",
                                     !.history = IF ok THEN <<row>> \o @ ELSE @,
                                     !.redis_online = TRUE,
                                     !.status = IF ok THEN "online" ELSE @]
         /\ ingest' = IF ~ok THEN Answered(FALSE)
                      ELSE IF uplink.event_type = "join" THEN Answered(TRUE)
                      ELSE [ingest EXCEPT !.stage = "received"]
  /\ UNCHANGED <<flow, phase, flow_history, label_history, trigger_nodes, branch, errors,
                 execution_path, flow_results, last_node_payload, summary, stack,
                 processed_nodes, function_history, integration_history, function_status,
                 integration_status, flow_status, executed, escaped, result_tree,
                 incoming_payload, suspended, script_result, script_output, reference_node,
                 reference, mqtt>>
  /\ UNCHANGED Event

\* the stored flow has a device node and an integration node
UplinkNext ==
  \/ CheckDuplicate
  \/ SelectFlows
  \/ ExecuteFlow
  \/ FlowReturns
  \/ FlowRaises
  \/ Respond
  \/ Start
  \/ CallIntegration
  \/ Return
  \/ Finalize

UplinkSpec == UplinkInit /\ [][UplinkNext]_vars

\* ------------------------------------------------------------------ claims
RECURSIVE SubResults(_)
\* a result and every result below it
SubResults(R) == {R} \cup UNION { SubResults(R.next_nodes[k]) : k \in 1..Len(R.next_nodes) }

\* every result process_flow has built so far
KnownResults ==
  UNION { SubResults(execution_path[k].result) : k \in 1..Len(execution_path) }
  \cup UNION { SubResults(stack[k].results) : k \in 1..Len(stack) }

\* the result of a call that found its node and went through its edge loop
IsNodeResult(R) == R.type # Absent
OwnFailed(R) == R.function_result = "error" \/ R.integration_result = "error"
HasErrorChild(R) == \E k \in 1..Len(R.next_nodes) : R.next_nodes[k].status = "error"

\* execution k failed: the script or the transport reported an error, the entity
\* was an integration that does not exist, or the executor raised
OwnExecutionFailed(k) == executed[k].outcome = "error"

ExecutionsOf(kind) == { k \in 1..Len(executed) : executed[k].kind = kind }

\* C1: within one execute_flow_for_device invocation no function or integration
\* node is executed more than once, whichever trigger edges lead to it.
C1_NoNodeExecutedTwice ==
  \A j, k \in 1..Len(executed) : j # k => executed[j].node_id # executed[k].node_id

\* C2: process_flow terminates on every flow graph: no node is entered while a
\* call for it is in progress, an arrival at a node of processed_nodes returns
\* skipped / already_processed at once, and every top-level call returns.
NoReentry == \A j, k \in 1..Len(stack) : j # k => stack[j].node_id # stack[k].node_id

ArrivalAtProcessedIsSkipped ==
  (CallDue /\ stack # <<>> /\ CallTarget \in EntryProcessed) =>
     /\ Len(stack') = Len(stack)
     /\ stack'[Len(stack)].results.next_nodes = Append(Top.results.next_nodes, SkippedResult)
     /\ stack'[Len(stack)].results.status = Top.results.status
     /\ UNCHANGED <<processed_nodes, executed>>

C2_ProcessFlowTerminates ==
  /\ []NoReentry
  /\ [][ArrivalAtProcessedIsSkipped]_vars
  /\ (stack # <<>>) ~> (stack = <<>>)

\* a call is in progress for f1's cycle: the walk came back to a node on the stack
\* and the arrival was skipped
C2_Witness ==
  \E j, k \in 1..Len(stack) :
     /\ j < k
     /\ stack[k].i > 1
     /\ stack[k].targets[stack[k].i - 1] = stack[j].node_id
     /\ stack[k].results.next_nodes[stack[k].i - 1] = SkippedResult

\* C3: with N branches of which E errored, the final flow record status is
\* success if E = 0, error if E = N, partial_success otherwise.
C3_FlowStatusByErrorCount ==
  phase = "done" =>
    /\ summary.status = IF Len(errors) = 0 THEN "success"
                        ELSE IF Len(errors) = Len(Branches) THEN "error"
                        ELSE "partial_success"
    /\ flow_history.status = summary.status

\* C4: the status of a node's result is error if the node's own execution failed
\* or a child result has status error, and processed otherwise; an error anywhere
\* in a branch's result tree makes the branch result error.
C4_StatusPropagation ==
  /\ \A k \in 1..Len(executed) : OwnExecutionFailed(k) => executed[k].status = "error"
  /\ \A R \in KnownResults :
       IsNodeResult(R) =>
         R.status = IF OwnFailed(R) \/ HasErrorChild(R) THEN "error" ELSE "processed"
  /\ \A k \in 1..Len(execution_path) :
       (\E R \in SubResults(execution_path[k].result) : R.status = "error")
          => execution_path[k].result.status = "error"

\* C5: a failure inside a node executor never leaves process_flow as an
\* exception; process_flow returns a result in which the node has status error.
C5_ExecutorFailuresContained ==
  /\ \A k \in 1..Len(escaped) : escaped[k] # "executor"
  /\ \A k \in 1..Len(executed) :
       executed[k].raised \/ OwnExecutionFailed(k) => executed[k].status = "error"
  /\ \A k \in 1..Len(stack) :
       (stack[k].results.function_error = "exception") => stack[k].results.status = "error"

\* C6: every call made from a node's edge loop gets the node's modified_payload
\* if the node is a function node that produced one, the node's incoming payload
\* otherwise; only a function node that succeeded has a modified_payload.
NextPayloadOf(frame) ==
  IF frame.type = "function" /\ frame.results.modified_payload # NoPayload
  THEN frame.results.modified_payload ELSE frame.payload

C7_FlowRecordLifecycle ==
  /\ phase = "init" => executed = <<>>
  /\ phase = "branches" => flow_history.status = "running"
  /\ phase = "done" => flow_history.db \in {"success", "partial_success", "error"}
  /\ phase \in {"done", "aborted"} => flow_history.db # "running"

\* C8: every invocation of process_function_node writes exactly one
\* FunctionHistory record.
C8_OneScriptRecordPerInvocation ==
  Len(function_history) = Cardinality(ExecutionsOf("function"))

\* C9: every invocation of process_integration_node writes exactly one
\* IntegrationHistory record.
C9_OneIntegrationRecordPerInvocation ==
  Len(integration_history) = Cardinality(ExecutionsOf("integration"))

\* C10: after an execution of a node whose entity was found, the entity's status
\* is success iff the outcome of the most recent execution was success, and
\* error otherwise.
LastFound(kind) ==
  LET ks == { k \in ExecutionsOf(kind) : executed[k].found } IN
  IF ks = {} THEN 0 ELSE CHOOSE k \in ks : \A j \in ks : j <= k

StatusAfter(kind, status) ==
  LastFound(kind) # 0 =>
     status = IF executed[LastFound(kind)].outcome = "success" THEN "success" ELSE "error"

C10_StatusReflectsLastExecution ==
  /\ StatusAfter("function", function_status)
  /\ StatusAfter("integration", integration_status)

\* the history record that execution k created: records are created, in order,
\* by the executions that found their entity
HistoryIndex(k) ==
  Cardinality({ j \in ExecutionsOf(executed[k].kind) : j <= k /\ executed[j].found })

HistoryOf(k) ==
  IF executed[k].kind = "function" THEN function_history[HistoryIndex(k)]
  ELSE integration_history[HistoryIndex(k)]

Stored_(rec) == rec.state \in {"flushed", "committed"}

\* C11: a script with a denylisted substring is never evaluated, the executor
\* returns an error result, and its history record ends stored with status error.
C11_DenylistedScriptRejected ==
  \A k \in ExecutionsOf("function") :
     (executed[k].found /\ executed[k].input = "deny") =>
        /\ ~executed[k].evaluated
        /\ ~executed[k].raised
        /\ executed[k].outcome = "error"
        /\ HistoryOf(k).status = "error"
        /\ Stored_(HistoryOf(k))

\* C12: a script that overruns the deadline ends with an error result that
\* carries a timeout message and with a history record stored with status error,
\* whichever of the three checks finds the overrun.
TimeoutScripts == {"timeout_check", "timeout_alarm", "timeout_deadline"}

C12_TimeoutEndsInError ==
  \A k \in ExecutionsOf("function") :
     (executed[k].found /\ executed[k].input \in TimeoutScripts) =>
        /\ ~executed[k].raised
        /\ executed[k].outcome = "error"
        /\ executed[k].message \in {"timeout", "js_timeout"}
        /\ HistoryOf(k).status = "error"
        /\ Stored_(HistoryOf(k))

\* C13: every audit field that reaches the store (the output of a function
\* record, the response of an integration record, the fields of the flow
\* record) is JSON-serializable, and a field that holds a fallback carries an
\* error marker and a string form of at most TruncationLimit characters; the
\* record of a script whose result is not serializable is stored all the same.
AuditOk(d) == d.json /\ (d.fallback => d.marker /\ d.len <= TruncationLimit)
C13_AuditFieldsSerializable ==
  /\ \A k \in 1..Len(function_history) :
        Stored_(function_history[k]) => AuditOk(function_history[k].output_data)
  /\ \A k \in 1..Len(integration_history) :
        Stored_(integration_history[k]) => AuditOk(integration_history[k].response_data)
  /\ flow_history.state \in {"flushed", "committed"} => AuditOk(flow_history.output_data)
  /\ \A k \in ExecutionsOf("function") :
        (executed[k].found /\ ~ScriptResult(executed[k].input).json /\ dbFailures = 0)
           => Stored_(HistoryOf(k))

\* C14: no failure of a flush or commit of a history record aborts the
\* traversal or the flow: no executor raises (an executor of this model raises
\* only when its insert or its commit fails), and the flow is aborted only by
\* the one other cause the model has, a trigger resolution that raises.
C14_PersistenceFailuresContained ==
  /\ \A k \in 1..Len(executed) : ~executed[k].raised
  /\ phase = "aborted" => TriggerResolutionRaises(flow.nodes)

\* C15: when a branch traversal raised inside execute_flow_for_device, the
\* remaining branches are still traversed, and once the flow execution is over
\* the flow record is written with status error.
C15_RaisedBranchMarksFlowError ==
  (escaped # <<>> /\ phase \in {"done", "aborted"}) =>
     /\ branch > Len(Branches)
     /\ flow_history.status = "error"
     /\ flow_history.state = "committed"

\* C16: in the flow whose single branch is device d1 -> integration i1, when the
\* transport of i1 fails, the integration record is stored with status error,
\* the result of the node has status error, and the flow record is written with
\* status error.
D1I1Flow ==
  /\ flow.edges = <<Edge("d1", "i1")>>
  /\ FindNode(flow.nodes, "i1") = <<StoredIntegrationNode>>

C16_TransportFailureMarksFlowError ==
  (D1I1Flow /\ phase \in {"done", "aborted"} /\ Len(executed) = 1
     /\ executed[1].input = "error") =>
     /\ HistoryOf(1).status = "error" /\ Stored_(HistoryOf(1))
     /\ executed[1].status = "error"
     /\ flow_history.status = "error" /\ flow_history.state = "committed"

\* C17: an execution of an integration whose type is neither http nor mqtt
\* returns an error result to the traversal, the result of its node has status
\* error, its history record is stored with status error, and while it is the
\* most recent execution the status of the integration is error.
C17_UnknownTypeIsError ==
  \A k \in ExecutionsOf("integration") :
     (executed[k].found /\ executed[k].input = "unknown_type") =>
        /\ ~executed[k].raised
        /\ executed[k].outcome = "error" /\ executed[k].status = "error"
        /\ HistoryOf(k).status = "error" /\ Stored_(HistoryOf(k))
        /\ k = LastFound("integration") => integration_status = "error"

\* ------------------------------------------------------------------ trigger resolution claims
\* the trigger nodes have been resolved
Resolved == phase \in {"branches", "done"}

InTriggers(node_id) == \E k \in 1..Len(trigger_nodes) : trigger_nodes[k] = node_id

NodesOfType(type) == { k \in 1..Len(flow.nodes) : flow.nodes[k].type = type }

DeviceIdRule(data) ==
  \E f \in {"deviceId", "entityId", "id"} \cap DOMAIN data : Str(data[f]) = Str(device_id)

EuiRule(data) == "label" \in DOMAIN data /\ Strip(Str(data.label)) = device_eui

\* C18: a device node is a trigger node iff the string form of one of its
\* attributes deviceId, entityId, id equals the string form of the device id, or
\* its trimmed label equals the EUI of the device.
C18_DeviceTriggerRule ==
  Resolved =>
    \A k \in NodesOfType("device") :
       InTriggers(flow.nodes[k].id)
         <=> (DeviceIdRule(flow.nodes[k].data) \/ EuiRule(flow.nodes[k].data))

\* the id of the event is the string "42" and the attribute the integer 42, or
\* the other way round, and the node is selected
C18_Witness ==
  /\ Resolved
  /\ \E k \in NodesOfType("device") :
        /\ InTriggers(flow.nodes[k].id)
        /\ ~EuiRule(flow.nodes[k].data)
        /\ \A f \in {"deviceId", "entityId", "id"} \cap DOMAIN flow.nodes[k].data :
              flow.nodes[k].data[f] # device_id

\* a value matches a member of label_ids: as integers when int() accepts the
\* value, as strings when it does not
LabelValueMatches(v) ==
  IF IntParses(v) THEN \E k \in 1..Len(label_ids) : label_ids[k] = IntVal(IntOf(v))
  ELSE \E k \in 1..Len(label_ids) : Str(label_ids[k]) = Str(v)

LabelIdRule(data) ==
  \E f \in {"labelId", "entityId", "id"} \cap DOMAIN data : LabelValueMatches(data[f])

\* C19: a label node is a trigger node iff one of its attributes labelId,
\* entityId, id matches a member of label_ids, as integers when int() accepts
\* the value and as strings when it does not; the value "7x" alone selects the
\* node iff label_ids holds the string "7x", and the resolution never raises
\* (the execution is aborted only by a failing flush or commit).
C19_LabelTriggerRule ==
  /\ Resolved =>
       \A k \in NodesOfType("label") :
          /\ InTriggers(flow.nodes[k].id) <=> LabelIdRule(flow.nodes[k].data)
          /\ flow.nodes[k].data = [labelId |-> StrVal("7x")] =>
                (InTriggers(flow.nodes[k].id)
                   <=> \E j \in 1..Len(label_ids) : label_ids[j] = StrVal("7x"))
  /\ phase = "aborted" => dbFailures > 0

\* a label node with the attribute "7x" is selected, and one with "7x" is
\* resolved without being selected
C19_Witness ==
  /\ Resolved
  /\ \E k \in NodesOfType("label") :
        flow.nodes[k].data = [labelId |-> StrVal("7x")] /\ InTriggers(flow.nodes[k].id)
  /\ Len(flow.nodes) = 2

\* the place of a node id in flow.nodes
Position(node_id) == CHOOSE k \in 1..Len(flow.nodes) : flow.nodes[k].id = node_id

\* C20: trigger_nodes holds node ids of the flow in strictly increasing
\* declaration order, hence each at most once.
C20_OneTriggerEntryPerNode ==
  Resolved =>
    /\ \A i \in 1..Len(trigger_nodes) : \E k \in 1..Len(flow.nodes) :
          flow.nodes[k].id = trigger_nodes[i]
    /\ \A i, j \in 1..Len(trigger_nodes) :
          i < j => Position(trigger_nodes[i]) < Position(trigger_nodes[j])

\* two nodes are selected, the first by an id attribute and by its label, the
\* second by several id attributes
C20_Witness ==
  /\ Resolved
  /\ Len(trigger_nodes) = 2
  /\ DeviceIdRule(flow.nodes[1].data) /\ EuiRule(flow.nodes[1].data)
  /\ flow.nodes[2].data = [labelId |-> IntVal("7"), entityId |-> StrVal("7"), id |-> IntVal("7")]

\* ------------------------------------------------------------------ traversal claims
\* the set of visited nodes the due call sees: the one of its call tree, empty
\* for a call of the branch loop
VisitedAtCall == IF stack = <<>> THEN {} ELSE processed_nodes

LastOf(seq) == seq[Len(seq)]

\* the due call arrives at a node of the visited set of its call tree
SkipArrival == CallDue /\ stack # <<>> /\ Top.targets[Top.i] \in processed_nodes

\* C24: an arrival at a visited node returns skipped / already_processed and
\* changes nothing else: no executor runs, no record is written, no status
\* changes, the visited set is the same, no frame is opened for the node (its
\* edges are not traversed), the caller's status is what it was; and within a
\* call tree the visited set only grows.
C24_SkippedHasNoSideEffects ==
  [][/\ SkipArrival =>
          /\ Len(stack') = Len(stack)
          /\ \A k \in 1..(Len(stack) - 1) : stack'[k] = stack[k]
          /\ LastOf(stack').i = Top.i + 1
          /\ Len(LastOf(stack').results.next_nodes) = Len(Top.results.next_nodes) + 1
          /\ LastOf(LastOf(stack').results.next_nodes).status = "skipped"
          /\ LastOf(LastOf(stack').results.next_nodes).reason = "already_processed"
          /\ LastOf(LastOf(stack').results.next_nodes).next_nodes = <<>>
          /\ LastOf(stack').results.status = Top.results.status
          /\ UNCHANGED <<processed_nodes, executed, escaped, flow_status>>
          /\ UNCHANGED DbVars
     /\ stack # <<>> => processed_nodes \subseteq processed_nodes']_vars

\* a frame holds a skipped result for an edge whose target is visited, and a
\* later edge of the frame has been walked since
C24_Witness ==
  \E k \in 1..Len(stack) : \E i \in 1..Len(stack[k].results.next_nodes) :
     /\ stack[k].results.next_nodes[i].status = "skipped"
     /\ stack[k].targets[i] \in processed_nodes
     /\ Cardinality(processed_nodes) >= 2

\* the due call arrives at an id that is not visited and is no node of the flow
NotFoundArrival ==
  /\ CallDue
  /\ CallTarget \notin VisitedAtCall
  /\ \A k \in 1..Len(flow.nodes) : flow.nodes[k].id # CallTarget

\* C25: an arrival at an id that is no node of the flow marks the id visited,
\* runs no executor and writes no record, and returns status error with a
\* not-found reason; the caller ends in error: the parent node's result has
\* status error, or at top level the branch is counted as an error.
C25_MissingNodeIsError ==
  [][NotFoundArrival =>
       /\ processed_nodes' = VisitedAtCall \cup {CallTarget}
       /\ UNCHANGED <<executed, escaped>>
       /\ UNCHANGED DbVars
       /\ IF stack # <<>> THEN
            /\ Len(stack') = Len(stack)
            /\ LastOf(LastOf(stack').results.next_nodes).status = "error"
            /\ LastOf(LastOf(stack').results.next_nodes).reason = "not_found"
            /\ LastOf(stack').results.status = "error"
          ELSE
            /\ stack' = <<>>
            /\ LastOf(execution_path').result.status = "error"
            /\ LastOf(execution_path').result.reason = "not_found"
            /\ Len(errors') = Len(errors) + 1
            /\ LastOf(errors').node_id = CallTarget]_vars

\* the parent of a missing node has status error and no failure of its own
C25_Witness ==
  \E k \in 1..Len(stack) : \E i \in 1..Len(stack[k].results.next_nodes) :
     /\ stack[k].results.next_nodes[i].reason = "not_found"
     /\ stack[k].targets[i] = MissingId
     /\ MissingId \in processed_nodes
     /\ stack[k].results.status = "error"
     /\ ~OwnFailed(stack[k].results)

\* the first edge of a frame whose sub-result has status error
FirstErrorChild(frame) ==
  CHOOSE i \in 1..Len(frame.results.next_nodes) :
     /\ frame.results.next_nodes[i].status = "error"
     /\ \A j \in 1..(i - 1) : frame.results.next_nodes[j].status # "error"

\* C26: the error of a node that did not fail itself names the first child, in
\* edge order, that ended in error; and an error a node's result carries is
\* never replaced, whatever a later child returns or raises.
C26_FirstErrorWins ==
  /\ [](\A k \in 1..Len(stack) :
          (stack[k].results.status = "error" /\ ~OwnFailed(stack[k].results)) =>
             stack[k].results.error[2] = stack[k].targets[FirstErrorChild(stack[k])])
  /\ [][\A k \in 1..Len(stack) :
          (k <= Len(stack') /\ stack[k].results.status = "error") =>
             stack'[k].results.error = stack[k].results.error]_vars

\* the sub-result is the one of a call for this target: it names the target, or
\* it is the result of an early return, which names no node
ResultOfTarget(R, target) == R.node_id \in {target, Absent}

\* C27: the traversal is sequential and depth-first in edge order.  The call in
\* progress below a frame is the call for the frame's current edge, and the
\* frame moves to its next edge only when that call is over; the frame holds one
\* sub-result for each edge walked so far, in edge order; a call returns only
\* after its last edge, with one sub-result per outgoing edge; one step runs at
\* most one executor and changes no frame below the caller of the call at hand;
\* the branch loop waits for the call it made.
C27_DepthFirstInEdgeOrder ==
  /\ [](\A k \in 1..Len(stack) :
          /\ Len(stack[k].results.next_nodes) = stack[k].i - 1
          /\ stack[k].targets = OutgoingEdges(flow.edges, stack[k].node_id)
          /\ \A j \in 1..Len(stack[k].results.next_nodes) :
                ResultOfTarget(stack[k].results.next_nodes[j], stack[k].targets[j])
          /\ k < Len(stack) =>
                /\ stack[k].i <= Len(stack[k].targets)
                /\ stack[k + 1].node_id = stack[k].targets[stack[k].i])
  /\ [](stack # <<>> =>
          /\ branch <= Len(Branches)
          /\ stack[1].node_id = Branches[branch].target_node)
  /\ [][/\ Len(stack') < Len(stack) =>
             /\ Len(stack') = Len(stack) - 1
             /\ Len(Top.results.next_nodes) = Len(Top.targets)
        /\ \A k \in 1..Len(stack) :
             (k < Len(stack') /\ k < Len(stack)) => stack'[k] = stack[k]
        /\ Len(executed') <= Len(executed) + 1]_vars

\* the second edge of a node is being walked after the subtree of the first is
\* complete: the first sub-result holds a sub-result of its own
C27_Witness ==
  \E k \in 1..Len(stack) :
     /\ Len(stack[k].targets) = 2
     /\ stack[k].i = 3
     /\ stack[k].results.next_nodes[1].next_nodes # <<>>
     /\ stack[k].results.next_nodes[2].status = "skipped"

\* the call that returns is a root call: the branch loop made it, without a
\* processed_nodes set
RootCallReturns == Len(stack) = 1 /\ stack' = <<>>

StatusOfResult(R) == IF R.status = "error" THEN "error" ELSE "success"

\* C28: the flow's status changes only when a root call returns, and then to
\* error iff the status of the call's result is error, to success otherwise;
\* a root call whose commit succeeds leaves the flow with that status; when
\* the commit fails the call still returns its result, unchanged, raises
\* nothing, and the stored status is what it was.
C28_FlowStatusWrittenByRootCall ==
  [][/\ flow_status' # flow_status =>
          (RootCallReturns /\ flow_status' = StatusOfResult(Top.results))
     /\ RootCallReturns =>
          /\ LastOf(execution_path').result = Top.results
          /\ escaped' = escaped
          /\ phase' = phase
          /\ flow_status' = IF dbFailures' = dbFailures
                            THEN StatusOfResult(Top.results) ELSE flow_status]_vars

\* a root call has returned with an error below it and the flow's status is
\* error, after a nested call returned without writing it
C28_Witness ==
  /\ flow_status = "error"
  /\ execution_path # <<>>
  /\ LastOf(execution_path).result.status = "error"
  /\ LastOf(execution_path).result.next_nodes # <<>>

\* C29: no call of the branch loop is a root call, and so no branch traversal
\* writes the flow's status.
C29_BranchCallsAreNotRoot ==
  /\ \A k \in 1..Len(stack) : ~stack[k].is_root_call
  /\ flow_status = Absent

\* ------------------------------------------------------------------ last payload claims
HasModifiedPayload(R) == R.modified_payload # NoPayload

RECURSIVE ModifiedPayloadFirst(_, _)
\* the payload the result names itself, else the one of its last sub-result,
\* else the incoming one
ModifiedPayloadFirst(R, payload) ==
  IF HasModifiedPayload(R) THEN R.modified_payload
  ELSE IF R.next_nodes # <<>> THEN ModifiedPayloadFirst(LastOf(R.next_nodes), payload)
  ELSE payload

RECURSIVE DeepestLastPayload(_, _)
\* the payload at the end of the path of last sub-results: each result hands its
\* modified_payload, or else what it received, to its last sub-result
DeepestLastPayload(R, payload) ==
  LET own == IF HasModifiedPayload(R) THEN R.modified_payload ELSE payload IN
  IF R.next_nodes # <<>> THEN DeepestLastPayload(LastOf(R.next_nodes), own) ELSE own

Selected(id) == \E k \in 1..Len(ingest.flows) : ingest.flows[k] = id

IsPrefix(s, t) == Len(s) <= Len(t) /\ s = SubSeq(t, 1, Len(s))

FlowsSelected == ingest.stage \in {"processing", "responded"}

\* the selection agrees with the trigger resolution, flow by flow
SelectionAgrees ==
  FlowsSelected =>
    \A j \in 1..Len(ingest.all_flows) :
       Selected(ingest.all_flows[j].id)
         <=> ResolveTriggers(ingest.all_flows[j].nodes) # <<>>

\* no flow id is twice in flows
SelectedOnce ==
  \A j, k \in 1..Len(ingest.flows) : ingest.flows[j] = ingest.flows[k] => j = k

\* C21: a stored flow is selected for the event iff the trigger resolution on
\* it yields a trigger node; a selected flow is in flows once, and when the
\* request is answered execute_flow_for_device has been called on it once.
C21_SelectionAgreesWithTriggers ==
  /\ SelectionAgrees
  /\ SelectedOnce
  /\ IsPrefix(ingest.calls, ingest.flows)
  /\ ingest.stage = "responded" => ingest.calls = ingest.flows

\* C22: the matched flows are executed one after the other in the order of
\* their selection, each once, and the request is answered with success true
\* and flows_processed the number of the matched flows, whatever the flows
\* returned.
C22_EveryMatchedFlowExecuted ==
  /\ IsPrefix(ingest.calls, ingest.flows)
  /\ Len(ingest.flow_results) <= Len(ingest.calls)
  /\ Len(ingest.calls) <= Len(ingest.flow_results) + 1
  /\ (FlowsSelected /\ phase # "idle") =>
        /\ Len(ingest.calls) = Len(ingest.flow_results) + 1
        /\ flow.id = LastOf(ingest.calls)
  /\ ingest.stage = "responded" =>
        /\ ingest.response.success
        /\ ingest.response.flows_processed = Len(ingest.flows)
        /\ Len(ingest.flow_results) = Len(ingest.flows)
\* ------------------------------------------------------------------ concurrency claims
RECURSIVE VisitsOf(_, _)
\* the node ids the call for target has marked, read off its result
VisitsOf(R, target) ==
  IF R.status = "skipped" THEN {}
  ELSE {target}
       \cup UNION { VisitsOf(R.next_nodes[k], OutgoingEdges(flow.edges, target)[k]) :
                      k \in 1..Len(R.next_nodes) }

\* the node ids the root call in progress has marked itself
OwnVisited ==
  UNION { {stack[k].node_id}
          \cup UNION { VisitsOf(stack[k].results.next_nodes[j], stack[k].targets[j]) :
                         j \in 1..Len(stack[k].results.next_nodes) } :
          k \in 1..Len(stack) }

\* what process_flow can make of the node: the results of every outcome of its
\* executor
NodeResults(node, payload) ==
  IF node.type = "function" THEN
    UNION { { FunctionNodeResults(node, process_function_node(node, payload, script, F)) :
                F \in { G \in FunctionFailSets(script) :
                          process_function_node(node, payload, script, G).found
                          \/ (G = {} /\ script = "ok") } } :
            script \in Scripts }
  ELSE IF node.type = "integration" THEN
    UNION { { IntegrationNodeResults(node, process_integration_node(node, payload, transport, F)) :
                F \in { G \in IntegrationFailSets :
                          process_integration_node(node, payload, transport, G).found
                          \/ (G = {} /\ transport = "success") } } :
            transport \in Transports }
  ELSE { MkResult(node.id, node.type, "processed") }

RECURSIVE AloneCalls(_, _, _)
RECURSIVE AloneEdgeLoops(_, _)
\* the outcomes of process_flow(target, payload, processed_nodes = visited) when
\* nothing else runs, each with the set it leaves
AloneCalls(target, payload, visited) ==
  IF target \in visited THEN { [out |-> Returned(SkippedResult), visited |-> visited] }
  ELSE IF NodeOf(target) = <<>> THEN
    { [out |-> Returned(NotFoundResult), visited |-> visited \cup {target}] }
  ELSE IF PrologueRaises(NodeOf(target)[1]) THEN
    { [out |-> Raised, visited |-> visited \cup {target}] }
  ELSE
    UNION { AloneEdgeLoops(Frame(NodeOf(target)[1], payload, results, FALSE),
                           visited \cup {target}) :
            results \in NodeResults(NodeOf(target)[1], payload) }

\* the rest of the edge loop of the frame
AloneEdgeLoops(frame, visited) ==
  IF frame.i > Len(frame.targets) THEN
    { [out |-> Returned(frame.results), visited |-> visited] }
  ELSE
    UNION { AloneEdgeLoops(EdgeOutcome(frame, frame.targets[frame.i], c.out), c.visited) :
            c \in AloneCalls(frame.targets[frame.i], frame.next_payload, visited) }

\* the result trees of a root call for target that runs alone
AloneResults(target) ==
  { c.out.result : c \in { d \in AloneCalls(target, InputPayload, {}) : ~d.out.exc } }

\* both invocations have gone on after the other one began
Interleaved == suspended.phase \in {"branches", "done", "aborted"}

\* C23: while two invocations interleave, the processed_nodes set of the root
\* call in progress holds the node ids this call has marked itself and no
\* other, and every result tree of an invocation is one that its root call
\* produces when it runs alone.
C23_InvocationsShareNoTraversalState ==
  /\ [](stack # <<>> => processed_nodes = OwnVisited)
  /\ [][(suspended' = suspended /\ Len(execution_path') = Len(execution_path) + 1) =>
          LastOf(execution_path').result
            \in AloneResults(LastOf(execution_path').target_node)]_vars

\* the first invocation waits at its integration node with f1 marked, the
\* second one has marked i1 and is in its own edge loop
C23_Witness ==
  /\ suspended.phase = "branches"
  /\ suspended.stack # <<>>
  /\ suspended.processed_nodes = {"f1"}
  /\ stack # <<>>
  /\ "i1" \in processed_nodes
  /\ "f1" \notin processed_nodes

Primitives == {"str", "int", "float", "nan", "bool"}
ErrorFallback(result) ==
  PyDict(<<"error", "data">>, <<PyStr("Non-serializable result"), StrOf(result)>>)

\* C32: when the script has returned, modified_payload is a dict json.dumps
\* accepts: a serializable dict, or the dict of a JavaScript object, unchanged;
\* None, a primitive or a serializable list under the key data; any other
\* value as its str() under the key data; and the error-shaped fallback when
\* the dict or list is not serializable
C32_ModifiedPayloadIsSerializableMapping ==
  script_output # NoOutput =>
    LET modified_payload == script_output.modified_payload
        result == script_result
        structured == IF result.t = "wrapper" THEN to_dict(result) ELSE result
    IN
    /\ modified_payload.t = "dict"
    /\ Serializable(modified_payload)
    /\ modified_payload =
         CASE result.t \in {"dict", "wrapper"} /\ Serializable(structured) -> structured
           [] result.t \in Primitives \cup {"none"} -> Wrap(result)
           [] result.t = "list" /\ Serializable(result) -> Wrap(result)
           [] result.t = "object" -> Wrap(StrOf(result))
           [] OTHER -> ErrorFallback(result)

\* a list that holds a value json.dumps rejects has been replaced by the fallback
C32_Witness ==
  /\ script_result.t = "list"
  /\ ~Serializable(script_result)
  /\ script_output # NoOutput
  /\ script_output.modified_payload.keys = <<"error", "data">>

RECURSIVE HasNaN(_)
HasNaN(x) == x.t = "nan" \/ \E i \in DOMAIN x.items : HasNaN(x.items[i])
Tokens(text) == { text[i] : i \in DOMAIN text }

\* C33: a NaN the script returned at any depth is in none of the persisted
\* fields: not in the output_data of the FunctionHistory record, not in the
\* execution_path and not in the output_data of the FlowHistory record
C33_NaNNeverPersisted ==
  script_output # NoOutput =>
    /\ ~HasNaN(script_output.output_data)
    /\ "NaN" \notin Tokens(script_output.execution_path)
    /\ "NaN" \notin Tokens(script_output.flow_output_data)


\* ------------------------------------------------------------------ entity reference claims
\* the key of the node type, then entityId, then id: the first one in the data
ReferenceKey(node) ==
  LET own == IF node.type = "function" THEN "functionId" ELSE "integrationId" IN
  IF own \in DOMAIN node.data THEN own
  ELSE IF "entityId" \in DOMAIN node.data THEN "entityId"
  ELSE IF "id" \in DOMAIN node.data THEN "id" ELSE "none"

\* C34: the entity of a function or integration node is the value of the first
\* key its data holds in the order functionId or integrationId, entityId, id,
\* whatever that value and whatever the later keys hold: the executor reports a
\* missing id when there is no such key or its value is None, and otherwise
\* looks up that value and no other
C34_FirstPresentKeyIsTheReference ==
  reference # NoReference =>
    LET key == ReferenceKey(reference_node)
        value == IF key = "none" THEN NoneVal ELSE reference_node.data[key]
    IN
    /\ reference.missing = (value = NoneVal)
    /\ reference.found = (value.s \in {"1"})
    /\ reference.found => reference.entity_id.s = value.s

\* the first key holds None and a later key an id that exists: nothing is looked up
C34_Witness ==
  /\ reference # NoReference
  /\ reference_node.type = "function"
  /\ DOMAIN reference_node.data = {"functionId", "entityId", "id"}
  /\ reference_node.data["functionId"] = NoneVal
  /\ reference_node.data["entityId"] = IntVal("1")
  /\ reference.missing
  /\ ~reference.found


\* ------------------------------------------------------------------ MQTT claims
\* C35: every message is published to the configured topic at the QoS of the
\* integration's configuration
C35_PublishesAtConfiguredQos ==
  \A i \in DOMAIN mqtt.published :
    /\ mqtt.published[i].topic = "topic"
    /\ mqtt.published[i].qos = mqtt.config_qos

\* the position of an event in the log, 0 when it has not happened
Index(event) ==
  IF \E i \in DOMAIN mqtt.log : mqtt.log[i] = event
  THEN CHOOSE i \in DOMAIN mqtt.log : mqtt.log[i] = event ELSE 0
Before(a, b) == Index(a) > 0 /\ Index(b) > 0 /\ Index(a) < Index(b)
Over(wait) == Index(wait) > 0

\* what a call that has returned satisfies; a wait is over when the flag is read
\* after its loop
ReturnedAsWaited ==
  mqtt.pc = "returned" =>
    /\ mqtt.result.status \in {"success", "error"}
    /\ mqtt.result.status = "success" =>
         /\ Before("on_connect_0", "connect_wait_over")
         /\ mqtt.qos > 0 => Before("on_publish", "publish_wait_over")
    /\ Before("on_connect_refused", "connect_wait_over") =>
         mqtt.result = [status |-> "error", error |-> "connection_failed"]
    /\ (Over("connect_wait_over") /\ ~Before("on_connect_0", "connect_wait_over")
          /\ ~Before("on_connect_refused", "connect_wait_over")) =>
         /\ mqtt.result.status = "error"
         /\ mqtt.result.error \in {"connect_timeout", "connection_failed"}
         /\ Index("on_connect_refused") = 0 => mqtt.result.error = "connect_timeout"
    /\ (Over("publish_wait_over") /\ ~Before("on_publish", "publish_wait_over")) =>
         mqtt.result = [status |-> "error", error |-> "publish_timeout"]

\* C36: under every interleaving of on_connect and on_publish with the two
\* polling loops, send_mqtt_message returns success only if on_connect
\* reported rc = 0 before the connect wait was over and, for QoS > 0,
\* on_publish fired before the publish wait was over; a refused connection, a
\* connect time-out and a publish time-out return status error with the
\* message of their stage; and the call returns
C36_ReturnsAsTheWaitsEnded ==
  [](ReturnedAsWaited) /\ <>(mqtt.pc = "returned")

\* a QoS 1 call returned success: both callbacks came before their waits ended
C36_Witness ==
  /\ mqtt.pc = "returned"
  /\ mqtt.qos = 1
  /\ mqtt.result.status = "success"
  /\ Before("on_connect_0", "connect_wait_over")
  /\ Before("on_publish", "publish_wait_over")


\* ------------------------------------------------------------------ unresolved function claims
Unresolved == {"error_missing_function_id", "error_function_not_found"}
UnresolvedResult(R) == R.type = "function" /\ R.function_result \in Unresolved
\* no result in next_nodes is an error
NoErrorBelow(R) == \A k \in DOMAIN R.next_nodes : R.next_nodes[k].status # "error"

\* C37: a function node without a function reference, or whose function is not
\* stored, is no error: no script is run, its result has status processed
\* unless a node below it fails, its outgoing edges get the incoming payload,
\* and its branch adds no entry to errors, so that a flow of such branches
\* only ends with status success
C37_UnresolvedFunctionIsNoError ==
  /\ \A k \in DOMAIN executed :
       (executed[k].kind = "function" /\ ~executed[k].found) =>
         /\ ~executed[k].evaluated
         /\ executed[k].outcome \in Unresolved
         /\ executed[k].status = "processed"
  /\ \A k \in DOMAIN stack :
       UnresolvedResult(stack[k].results) =>
         /\ stack[k].next_payload = stack[k].payload
         /\ NoErrorBelow(stack[k].results) => stack[k].results.status = "processed"
  /\ \A k \in DOMAIN execution_path :
       (UnresolvedResult(execution_path[k].result) /\ NoErrorBelow(execution_path[k].result)) =>
         /\ execution_path[k].result.status = "processed"
         /\ \A e \in DOMAIN errors : errors[e].node_id # execution_path[k].target_node
  /\ (phase = "done" /\ execution_path # <<>>
        /\ \A k \in DOMAIN execution_path :
             UnresolvedResult(execution_path[k].result) /\ NoErrorBelow(execution_path[k].result)) =>
       summary.status = "success"

\* the function of f1 is not stored and f2 below it has run on the payload of
\* the uplink
C37_Witness ==
  /\ phase = "done"
  /\ flow.nodes = <<DeviceNode, MissingFunctionNode, SecondFunctionNode>>
  /\ Len(executed) = 2
  /\ ~executed[1].found
  /\ executed[2].found
  /\ last_node_payload = Script(InputPayload)
  /\ summary.status = "success"


\* ------------------------------------------------------------------ integration status claims
\* C38: the status of the result an integration execution returns to the
\* traversal agrees with the status written to the integration: a transport
\* that reported an error gives a result with status error, and after the
\* latest execution the integration's status is error exactly when that
\* result is
C38_ResultAgreesWithIntegrationStatus ==
  /\ \A k \in DOMAIN executed :
       (executed[k].kind = "integration" /\ executed[k].found /\ executed[k].input = "error") =>
         executed[k].status = "error"
  /\ (executed # <<>> /\ executed[Len(executed)].kind = "integration"
        /\ executed[Len(executed)].found) =>
       (integration_status = "error") = (executed[Len(executed)].status = "error")


\* ------------------------------------------------------------------ empty flow claims
\* no trigger node of the flow matches the event, or none that matches is the
\* source of an edge
NothingToTraverse ==
  /\ ~TriggerResolutionRaises(flow.nodes)
  /\ BranchesOf(flow, ResolveTriggers(flow.nodes)) = <<>>

\* C39: when no node of the flow matches the event, or no matched trigger node
\* has an outgoing edge, no executor is invoked and the invocation ends by
\* returning: the flow record is committed with status success and the
\* summary has status success, no results, errors None and last_node_payload
\* None
C39_NothingToTraverseEndsInSuccess ==
  NothingToTraverse =>
    /\ executed = <<>>
    /\ stack = <<>>
    /\ phase \in {"done", "aborted"} =>
         /\ phase = "done"
         /\ flow_history.db = "success"
         /\ summary.status = "success"
         /\ summary.results = <<>>
         /\ summary.errors.none
         /\ summary.last_node_payload = NoPayload


\* ------------------------------------------------------------------ duplicate uplink claims
\* the places of the rows of device 1 with the event type of the uplink
SameEvent ==
  { i \in DOMAIN uplink.before :
      uplink.before[i].device_id = "1" /\ uplink.before[i].event = uplink.event_type }
\* one of the 10 most recent of them has the deduplicationId of the uplink
Duplicate ==
  \E i \in SameEvent :
    /\ Cardinality({ j \in SameEvent : j <= i }) <= 10
    /\ uplink.before[i].dedup = uplink.dedup

\* C40: an uplink whose deduplicationId is that of one of the 10 most recent
\* history rows of the device with the same event type is rejected and
\* changes nothing: no DeviceHistory row is added, the online status is not
\* touched, no flow is selected and none is executed
C40_DuplicateUplinkHasNoEffect ==
  (uplink.stage \notin {"none", "arrived"} /\ Duplicate) =>
    /\ uplink.stage = "rejected"
    /\ uplink.history = uplink.before
    /\ ~uplink.redis_online
    /\ uplink.status = "offline"
    /\ ingest.stage = "responded"
    /\ ~ingest.response.success
    /\ ingest.flows = <<>>
    /\ ingest.calls = <<>>
    /\ phase = "idle"
    /\ executed = <<>>

\* the duplicate is the tenth of the rows of the device and event type, behind
\* a row of another device
C40_Witness ==
  /\ uplink.stage = "rejected"
  /\ Len(uplink.before) = 11
  /\ uplink.before[10].device_id = "2"
  /\ uplink.before[11] = HistoryEntry("1", uplink.event_type, "a")
  /\ \A i \in 1..9 : uplink.before[i].dedup = "b"

====
